---- MODULE Spec2Model ----
(***************************************************************************)
(* Model of condoor: the FSM engine (controllers/fsm.py), the command      *)
(* execution of the generic platform driver (platforms/generic.py), the    *)
(* FSM actions (actions.py) and the hop controller (pexpect_ctrl.py).      *)
(*                                                                         *)
(* SpecFSM runs FSM.run on transition tables taken from the unit tests and *)
(* on tables that reach every branch of the loop.  Spec runs send and      *)
(* disconnect on one connection from the threads of Threads, SpecLive does *)
(* so with threads that are scheduled fairly, SpecCalls adds enable and    *)
(* run_fsm.  SpecHops runs connect, reload, send and disconnect of one     *)
(* driver and its controller over a chain of hops.  SpecFacade runs        *)
(* connect, reconnect and disconnect of one Connection object over its     *)
(* alternative chains.  SpecRecord writes the device description record    *)
(* of a discovered Connection and installs it on a new one.                *)
(* SpecProto runs the FSMs of the protocols (controllers/protocols), the   *)
(* enable dialog of IOS and Controller.disconnect on one controller.       *)
(***************************************************************************)
EXTENDS Integers, Sequences, FiniteSets, TLC

\* ------------------------------------------------------------------------
\* Bounds of the model
\* ------------------------------------------------------------------------

\* largest value of FSM.max_transitions tried by SpecFSM
MaxN == 3

\* number of calls (send, disconnect, enable, run_fsm) made by the threads
\* together
MaxSends == 2

\* ------------------------------------------------------------------------
\* State
\* ------------------------------------------------------------------------

\* SpecFSM: the FSM object under test (sm), the context and the locals of its
\* run (run), and what every pass through the loop was given and did (log)
VARIABLES sm, run, log

\* Spec: the driver's connected flag, the controller (its flags, its session
\* and what was written to and read from it), the holder of the mutex
\* command_execution_pending, the threads calling send (th) and the number
\* of disconnects made so far
VARIABLES connected, ctrl, command_execution_pending, th, disconnects

\* SpecHops: a driver and its controller as connect, reload, send and
\* disconnect leave them: the flags, last_hop, the detected-prompt table and
\* the session of the controller, the connected flag of the driver, the
\* deepest hop that was still reachable when the session was last lost, and
\* what the last call did
VARIABLES orch

\* SpecFacade: a Connection object of condoor/__init__.py with its
\* alternative chains: the index of the chain in use, whether the device
\* was discovered, the driver it holds, the record of the device in the
\* cache file, and the position of the call of connect or reconnect in
\* progress with what it did so far
VARIABLES fac

\* SpecRecord: a Connection after its discovery, the record it wrote to
\* the cache, the new Connection that installed the record and the record
\* read back from it
VARIABLES trip

\* SpecProto: one dialog with the device run by FSM.run (the authenticate
\* FSM of telnet, the connect and authenticate FSMs of ssh, the enable
\* dialog of IOS) or a call of disconnect on one controller: the
\* controller and its session, the password of the hop, what was sent and
\* spawned so far, the last pass of the FSM and how the call ended
VARIABLES proto

fsm_vars == <<sm, run, log>>

conn_vars == <<connected, ctrl, command_execution_pending, th, disconnects>>

vars == <<sm, run, log, connected, ctrl, command_execution_pending, th, disconnects, orch, fac, trip, proto>>

\* ------------------------------------------------------------------------
\* Exceptions (exceptions.py, pexpect)
\* ------------------------------------------------------------------------

NoExc == [type |-> "None", message |-> "", command |-> ""]

Exc(type, message) == [type |-> type, message |-> message, command |-> ""]

\* class hierarchy of exceptions.py: ConnectionError and its subclasses
ConnectionErrorTypes ==
    {"ConnectionError", "ConnectionAuthenticationError", "ConnectionTimeoutError"}

\* class hierarchy of exceptions.py: CommandError and its subclasses
CommandErrorTypes == {"CommandError", "CommandSyntaxError", "CommandTimeoutError"}

\* ------------------------------------------------------------------------
\* FSM engine (controllers/fsm.py)
\* ------------------------------------------------------------------------

\* FSM.max_transitions, the class attribute
DefaultMaxTransitions == 20

\* the three kinds of action FSM.run tells apart, and anything else
CallAction(name) == [kind |-> "call", name |-> name, exc |-> NoExc]
ExcAction(e) == [kind |-> "exc", name |-> "", exc |-> e]
NoneAction == [kind |-> "none", name |-> "", exc |-> NoExc]
OtherAction(name) == [kind |-> "other", name |-> name, exc |-> NoExc]

\* a transition tuple (event, [list_of_states], next_state, action, timeout)
Tr(event, states, next_state, action, timeout) ==
    [event |-> event, states |-> states, next_state |-> next_state,
     action |-> action, timeout |-> timeout]

Range(seq) == {seq[i] : i \in 1..Len(seq)}

\* events.index(event), 0-based; -1 stands for ValueError
IndexOf(events, event) ==
    IF \E i \in 1..Len(events) : events[i] = event
    THEN (CHOOSE i \in 1..Len(events) :
              events[i] = event /\ \A j \in 1..(i - 1) : events[j] # event) - 1
    ELSE -1

EmptyTable == [key \in {} |-> 0]

\* FSM._compile: the dictionary (event_index, state) -> (new_state, action,
\* timeout) after the first n transitions; a later transition overwrites an
\* earlier one with the same key, a transition for an event that is not in
\* the event list is dropped
RECURSIVE CompileUpTo(_, _, _)
CompileUpTo(transitions, events, n) ==
    IF n = 0 THEN EmptyTable
    ELSE LET compiled == CompileUpTo(transitions, events, n - 1)
             t == transitions[n]
             event_index == IndexOf(events, t.event)
             keys == {<<event_index, s>> : s \in Range(t.states)}
             entry == [next_state |-> t.next_state, action |-> t.action,
                       timeout |-> t.timeout]
         IN  IF event_index = -1 THEN compiled
             ELSE [key \in (DOMAIN compiled) \cup keys |->
                      IF key \in keys THEN entry ELSE compiled[key]]

Compile(transitions, events) == CompileUpTo(transitions, events, Len(transitions))

\* what ctrl.expect did: it returned an event index, or raised EOF / TIMEOUT
\* (pexpect raises them when they are not in the list of patterns)
Matched(i) == [kind |-> "index", index |-> i]
RaisedEOF == [kind |-> "eof", index |-> -1]
RaisedTIMEOUT == [kind |-> "timeout", index |-> -1]

\* what the call of a callable action did: the value it returned, whether
\* it set ctx.finished, the exception it raised
Returned(ret, finished) == [ret |-> ret, finished |-> finished, exc |-> NoExc]
Raised(e) == [ret |-> FALSE, finished |-> FALSE, exc |-> e]

NoEvent == -1
NoCall == [name |-> "", event |-> NoEvent, state |-> 0]

\* FSM.run, lines 169-172: the context and the locals before the loop. call
\* is what the action called in the last pass saw in ctx, for the log
NewRun(m) ==
    [state |-> 0, finished |-> FALSE, event |-> NoEvent,
     transition_counter |-> 0, timeout |-> m.timeout,
     init_pattern |-> m.init_pattern,
     status |-> "running", exc |-> NoExc, call |-> NoCall]

\* the condition of the while loop, line 173
LoopCondition(m, r) == r.transition_counter < m.max_transitions + 1

\* a faulty except clause: it catches every exception
TranslateEOF_Every(e) == Exc("ConnectionError", "Session closed unexpectedly")

\* except EOF (lines 216-217): EOF raised inside the try block leaves run as
\* ConnectionError, every other exception leaves it unchanged
TranslateEOF(e) ==
    IF e.type = "EOF" THEN Exc("ConnectionError", "Session closed unexpectedly") ELSE e

RaiseFromRun(r, e) == [r EXCEPT !.status = "raised", !.exc = TranslateEOF(e)]

\* a faulty update: the timeout of the transition is taken even when it is 0
NextTimeout_Always(timeout, next_timeout) == next_timeout

\* lines 207-208: no change if set to 0
NextTimeout(timeout, next_timeout) == IF next_timeout # 0 THEN next_timeout ELSE timeout

\* a faulty test: ctx.finished is not looked at
Finishes_NextStateOnly(finished, next_state) == next_state = -1

\* lines 219-221: the test that ends the run with True
Finishes(finished, next_state) == finished \/ next_state = -1

\* lines 207-210 and 219-221: the timeout and the state after the action,
\* then the test that ends the run with True
Advance(r, tr) ==
    LET r1 == [r EXCEPT !.timeout = NextTimeout(@, tr.timeout),
                        !.state = tr.next_state]
    IN  IF Finishes(r1.finished, tr.next_state)
        THEN [r1 EXCEPT !.status = "true"]
        ELSE r1

\* a faulty else branch: return False instead of continue
UnknownTransition_Stops(r) == [r EXCEPT !.status = "false"]

\* lines 212-214: Unknown transition, continue
UnknownTransition(r) == r

\* a faulty call: the value the action returned is ignored
ActionFailed_Continues(r) == r

\* lines 196-198: the action returned False, return False
ActionFailed(r) == [r EXCEPT !.status = "false"]

\* the context the action is called with, line 196
CallWith(r, action) ==
    [r EXCEPT !.call = [name |-> action.name, event |-> r.event, state |-> r.state]]

\* lines 187-214: the lookup of (ctx.event, ctx.state) and the action
Dispatch(table, r, res) ==
    LET key == <<r.event, r.state>>
    IN  IF key \notin DOMAIN table THEN UnknownTransition(r)
        ELSE LET tr == table[key]
                 called == CallWith(r, tr.action)
             IN  CASE tr.action.kind = "call" ->
                        IF res.exc # NoExc THEN RaiseFromRun(called, res.exc)
                        ELSE IF ~res.ret
                             THEN ActionFailed([called EXCEPT
                                                  !.finished = @ \/ res.finished])
                             ELSE Advance([called EXCEPT
                                              !.finished = @ \/ res.finished], tr)
                   [] tr.action.kind = "exc" -> RaiseFromRun(r, tr.action.exc)
                   [] tr.action.kind = "none" -> Advance(r, tr)
                   [] OTHER ->
                        \* action.__name__ is evaluated for the log first
                        RaiseFromRun(r, IF tr.action.name = ""
                                        THEN Exc("AttributeError", "__name__")
                                        ELSE Exc("Exception", "FSM Action is not callable"))

\* FSM.run, lines 173-225: the test of the while loop and, when it holds, one
\* pass through the body. ex is what ctrl.expect does in this pass (unused
\* when init_pattern is consumed), res what the call of the action does
\* (unused when no callable action is reached)
RunStep(m, r, ex, res) ==
    IF ~LoopCondition(m, r)
    THEN [r EXCEPT !.status = "false", !.call = NoCall]
    ELSE LET r1 == [r EXCEPT !.transition_counter = @ + 1, !.call = NoCall]
         IN  IF r.init_pattern # "None"
             THEN IF IndexOf(m.events, r.init_pattern) = -1
                  THEN RaiseFromRun(r1, Exc("ValueError", "not in list"))
                  ELSE Dispatch(m.table,
                                [r1 EXCEPT !.event = IndexOf(m.events, r.init_pattern),
                                           !.init_pattern = "None"], res)
             ELSE CASE ex.kind = "eof" -> RaiseFromRun(r1, Exc("EOF", ""))
                    [] ex.kind = "timeout" -> RaiseFromRun(r1, Exc("TIMEOUT", ""))
                    [] OTHER -> Dispatch(m.table, [r1 EXCEPT !.event = ex.index], res)

\* the transition the next pass dispatches to when expect does ex, if any
UsesInitPattern(r) == r.init_pattern # "None"

EventOf(m, r, ex) ==
    IF UsesInitPattern(r) THEN IndexOf(m.events, r.init_pattern) ELSE ex.index

HasTransition(m, r, ex) ==
    /\ LoopCondition(m, r)
    /\ UsesInitPattern(r) \/ ex.kind = "index"
    /\ <<EventOf(m, r, ex), r.state>> \in DOMAIN m.table

PendingAction(m, r, ex) ==
    IF HasTransition(m, r, ex)
    THEN m.table[<<EventOf(m, r, ex), r.state>>].action
    ELSE NoneAction

\* FSM.__init__; max_transitions is the attribute of line 87, which
\* __init__ does not set: the tests and run_fsm pass it as an argument
MakeFSM(name, events, transitions, init_pattern, timeout, max_transitions) ==
    [name |-> name, events |-> events, table |-> Compile(transitions, events),
     init_pattern |-> init_pattern, timeout |-> timeout,
     max_transitions |-> max_transitions]

\* ------------------------------------------------------------------------
\* FSM.run on its own: the tables of tests/unit/test_fsm.py and tables that
\* reach every branch of the loop, driven by a controller whose expect may
\* return any event index
\* ------------------------------------------------------------------------

\* the callables used as actions in the tables below
StubOutcome(name) ==
    CASE name = "a_false" -> Returned(FALSE, FALSE)
      [] name = "a_finish" -> Returned(TRUE, TRUE)
      [] name = "a_finish_false" -> Returned(FALSE, TRUE)
      [] name = "a_raise_eof" -> Raised(Exc("EOF", ""))
      [] OTHER -> Returned(TRUE, FALSE)      \* action1, action2, a_true

\* test_fsm_max_transitions: one self-loop on an event that always matches
TestMaxTransitions ==
    [name |-> "MAX-TR", events |-> <<"TIMEOUT">>, init_pattern |-> "None", timeout |-> 1,
     transitions |-> <<Tr("TIMEOUT", <<0>>, 0, CallAction("action1"), 1)>>]

\* test_fsm_action
TestAction ==
    [name |-> "FSM", events |-> <<"STATE1", "STATE2", "STATE3">>,
     init_pattern |-> "None", timeout |-> 1,
     transitions |->
        <<Tr("STATE1", <<0>>, 1, CallAction("action1"), 1),
          Tr("STATE2", <<1>>, 2, CallAction("action2"), 1),
          Tr("STATE3", <<2>>, 3, NoneAction, 1),
          Tr("STATE3", <<3>>, -1, ExcAction(Exc("ConnectionTimeoutError", "Error")), 0),
          Tr("UNKNOWN", <<4>>, -1, NoneAction, 0)>>]

\* test_fsm_event_not_list
TestEventNotList ==
    [name |-> "FSM", events |-> <<"STATE1">>, init_pattern |-> "None", timeout |-> 1,
     transitions |-> <<Tr("STATE1", <<0>>, -1, NoneAction, 1)>>]

\* test_fsm_action_is_string
TestActionIsString ==
    [name |-> "FSM", events |-> <<"STATE1">>, init_pattern |-> "None", timeout |-> 1,
     transitions |-> <<Tr("STATE1", <<0>>, -1, OtherAction(""), 1)>>]

\* test_fsm_unknown_state: the only transition is for event 0, expect
\* returns 2
TestUnknownState ==
    [name |-> "FSM", events |-> <<"STATE1", "T", "A">>, init_pattern |-> "None",
     timeout |-> 1,
     transitions |-> <<Tr("STATE1", <<0>>, -1, CallAction("action"), 1)>>]

\* actions that return False, set ctx.finished, change or keep the timeout
TableBranches ==
    [name |-> "BRANCHES", events |-> <<"E0", "E1", "E2", "TIMEOUT">>,
     init_pattern |-> "None", timeout |-> 60,
     transitions |->
        <<Tr("E0", <<0>>, 1, CallAction("a_true"), 10),
          Tr("E0", <<1>>, 0, NoneAction, 0),
          Tr("E1", <<0, 1>>, 2, CallAction("a_finish"), 5),
          Tr("E2", <<0>>, -1, CallAction("a_false"), 5),
          Tr("E2", <<1>>, -1, CallAction("a_finish_false"), 0),
          Tr("TIMEOUT", <<0>>, 0, CallAction("a_true"), 0),
          Tr("TIMEOUT", <<1>>, -1, ExcAction(Exc("CommandTimeoutError", "Timeout")), 5)>>]

\* an init_pattern, EOF among the events, actions that raise, a transition
\* overwritten by a later one, an object with a name that is not callable
TableInitPattern ==
    [name |-> "INIT", events |-> <<"E0", "E1", "EOF">>, init_pattern |-> "E1",
     timeout |-> 30,
     transitions |->
        <<Tr("E1", <<0>>, -1, NoneAction, 0),
          Tr("E1", <<0>>, 1, NoneAction, 10),
          Tr("E0", <<1>>, 2, CallAction("a_true"), 0),
          Tr("E1", <<1>>, 1, CallAction("a_raise_eof"), 0),
          Tr("EOF", <<0, 1>>, -1, ExcAction(Exc("ConnectionError", "Device disconnected")), 0),
          Tr("E0", <<2>>, -1, NoneAction, 5),
          Tr("E1", <<2>>, -1, ExcAction(Exc("EOF", "")), 0),
          Tr("EOF", <<2>>, 0, OtherAction("module"), 0)>>]

\* an init_pattern that is not in the event list
TableBadInitPattern ==
    [name |-> "BADINIT", events |-> <<"E0">>, init_pattern |-> "E9", timeout |-> 30,
     transitions |-> <<Tr("E0", <<0>>, -1, NoneAction, 0)>>]

\* transitions with and without a timeout of their own, and an event
\* without a transition
TableTimeouts ==
    [name |-> "TIMEOUTS", events |-> <<"E0", "E1", "TIMEOUT">>, init_pattern |-> "None",
     timeout |-> 60,
     transitions |->
        <<Tr("E0", <<0>>, 1, NoneAction, 10),
          Tr("E0", <<1>>, 1, CallAction("a_true"), 0),
          Tr("TIMEOUT", <<1>>, -1, NoneAction, 5)>>]

FsmCases ==
    {TestMaxTransitions, TestAction, TestEventNotList, TestActionIsString,
     TestUnknownState, TableBranches, TableInitPattern, TableBadInitPattern,
     TableTimeouts}

\* what expect can do for the list of events: any index, and EOF or TIMEOUT
\* raised when it is not in the list
ExpectResults(events) ==
    {Matched(i) : i \in 0..(Len(events) - 1)}
        \cup (IF "EOF" \in Range(events) THEN {} ELSE {RaisedEOF})
        \cup (IF "TIMEOUT" \in Range(events) THEN {} ELSE {RaisedTIMEOUT})

\* what one pass through the loop was given: the event, the state and the
\* timeout it started with, the transition found in the table (if any) and
\* what the action did; call is the context the action saw
NoEntry == [next_state |-> 0, action |-> NoneAction, timeout |-> 0]

PassKind(m, before, ex, res, expected) ==
    LET key == <<EventOf(m, before, ex), before.state>>
    IN  CASE expected /\ ex.kind # "index" -> "expect_raised"
          [] ~expected /\ IndexOf(m.events, before.init_pattern) = -1 -> "expect_raised"
          [] key \notin DOMAIN m.table -> "swallowed"
          [] m.table[key].action.kind = "none" -> "taken"
          [] m.table[key].action.kind = "exc" -> "raise"
          [] m.table[key].action.kind = "other" -> "not_callable"
          [] res.exc # NoExc -> "action_raised"
          [] ~res.ret -> "false"
          [] OTHER -> "taken"

LogEntry(m, before, after, ex, res, expected) ==
    LET key == <<EventOf(m, before, ex), before.state>>
    IN  [kind |-> PassKind(m, before, ex, res, expected),
         event |-> EventOf(m, before, ex), state |-> before.state,
         timeout |-> before.timeout, expected |-> expected,
         entry |-> IF key \in DOMAIN m.table THEN m.table[key] ELSE NoEntry,
         set_finished |-> res.exc = NoExc /\ res.finished,
         call |-> after.call]

\* one pass through the loop of FSM.run that consumes init_pattern
RunInitPattern ==
    /\ run.status = "running"
    /\ LoopCondition(sm, run)
    /\ UsesInitPattern(run)
    /\ LET res == StubOutcome(PendingAction(sm, run, RaisedEOF).name)
           r == RunStep(sm, run, RaisedEOF, res)
       IN  /\ run' = r
           /\ log' = Append(log, LogEntry(sm, run, r, RaisedEOF, res, FALSE))
    /\ UNCHANGED <<sm, conn_vars, orch, fac, trip, proto>>

\* one pass through the loop of FSM.run that calls ctrl.expect
RunExpect ==
    /\ run.status = "running"
    /\ LoopCondition(sm, run)
    /\ ~UsesInitPattern(run)
    /\ \E ex \in ExpectResults(sm.events) :
          LET res == StubOutcome(PendingAction(sm, run, ex).name)
              r == RunStep(sm, run, ex, res)
          IN  /\ run' = r
              /\ log' = Append(log, LogEntry(sm, run, r, ex, res, TRUE))
    /\ UNCHANGED <<sm, conn_vars, orch, fac, trip, proto>>

\* the else clause of the while loop: FSM looped, return False
RunExhausted ==
    /\ run.status = "running"
    /\ ~(LoopCondition(sm, run))
    /\ run' = RunStep(sm, run, RaisedEOF, Returned(TRUE, FALSE))
    /\ UNCHANGED <<sm, log, conn_vars, orch, fac, trip, proto>>

FsmNext == RunInitPattern \/ RunExpect \/ RunExhausted

\* ------------------------------------------------------------------------
\* Properties of FSM.run (checked under SpecFSM)
\* ------------------------------------------------------------------------

LastPass == log[Len(log)]

\* a pass was made in this step
PassMade == Len(log') = Len(log) + 1

NewPass == log'[Len(log')]

\* the passes that found a transition in the table
Fired == SelectSeq(log, LAMBDA e : e.kind \notin {"swallowed", "expect_raised"})

\* the number of transitions executed: the action, if any, was called and
\* returned true, state and timeout were updated
Executed == Cardinality({i \in 1..Len(log) : log[i].kind = "taken"})

\* C1: run starts in state 0, and it returns True exactly when the pass it
\* has just made took a transition whose next_state is -1 or whose action
\* set ctx.finished
C1_TrueExactlyWhenFinished ==
    /\ log = <<>> => run.state = 0 /\ run.status = "running"
    /\ log # <<>> => log[1].state = 0
    /\ run.status = "true" <=>
          /\ log # <<>>
          /\ LastPass.kind = "taken"
          /\ LastPass.entry.next_state = -1 \/ LastPass.set_finished

\* run returned True on a transition to a state other than -1 whose action
\* set ctx.finished
C1_Witness ==
    /\ run.status = "true"
    /\ LastPass.set_finished
    /\ LastPass.entry.next_state # -1

\* C2: no run executes more than max_transitions transitions, and the FSM
\* whose only transition is a self-loop on an event that always matches
\* executes its action exactly max_transitions times before run returns False
C2_AtMostMaxTransitions ==
    /\ Executed <= sm.max_transitions
    /\ sm.name = "MAX-TR" /\ run.status = "false" => Executed = sm.max_transitions

\* the self-loop FSM has returned False after max_transitions + 1 calls of
\* its action
C2_Witness ==
    /\ sm.name = "MAX-TR"
    /\ run.status = "false"
    /\ Executed = sm.max_transitions + 1

\* C3: a pass whose (event, state) has no transition calls no action, leaves
\* state, timeout and ctx.finished as they were and goes on to the next
\* expect; a run in which every pass is such a pass ends, returning False
C3_UnknownTransitionSwallowed ==
    [][/\ PassMade /\ NewPass.kind = "swallowed" =>
            /\ run'.call = NoCall
            /\ run'.state = run.state
            /\ run'.timeout = run.timeout
            /\ run'.finished = run.finished
            /\ run'.status = "running"
       /\ Len(log') <= sm.max_transitions + 1
       /\ (run'.status # "running" /\ \A i \in 1..Len(log') : log'[i].kind = "swallowed")
             => run'.status = "false"]_vars

\* a run of nothing but passes without a transition has returned False
C3_Witness ==
    /\ run.status = "false"
    /\ Len(log) = sm.max_transitions + 1
    /\ \A i \in 1..Len(log) : log[i].kind = "swallowed"

\* C4: when the action returns False, run returns False in that pass: the
\* state is not advanced, the timeout is not changed and no pass follows
C4_ActionFalseReturnsFalse ==
    [][/\ PassMade /\ NewPass.kind = "false" =>
            /\ run'.status = "false"
            /\ run'.state = run.state
            /\ run'.timeout = run.timeout
       /\ (log # <<>> /\ LastPass.kind = "false") => log' = log]_vars

\* an action of a transition with a new state and a new timeout returned
\* False
C4_Witness ==
    /\ log # <<>>
    /\ LastPass.kind = "false"
    /\ LastPass.entry.next_state # LastPass.state
    /\ LastPass.entry.timeout \notin {0, LastPass.timeout}
    /\ run.status = "false"

\* the context every action was called with, pass by pass: ctx.event is the
\* index of the matched event and ctx.state the source state; nothing is
\* called when the action is not callable or there is no transition
CalledWithMatchedEvent ==
    \A i \in 1..Len(log) :
        LET e == log[i]
        IN  IF e.kind \in {"taken", "false", "action_raised"} /\ e.entry.action.kind = "call"
            THEN e.call = [name |-> e.entry.action.name, event |-> e.event, state |-> e.state]
            ELSE e.call = NoCall

\* test_fsm_action: the transitions fired from the states 0, 1, 2 and 3
FiresInOrder ==
    (sm.name = "FSM" /\ log # <<>> /\ LastPass.kind = "raise")
        => [i \in 1..Len(Fired) |-> Fired[i].state] = <<0, 1, 2, 3>>

NumHosts == 2

Threads == {"T1", "T2"}

\* the command of the n-th send of a thread
CmdOf(t, n) ==
    IF t = "T1" THEN <<"show version", "show users", "show inventory", "show log">>[n]
    ELSE <<"wrongcommand", "terminal len 0", "show clock", "show ip route">>[n]

\* the timeout argument of send: its default, generic.py line 151
SendTimeouts == {60}

\* the wait_for_string argument of send: None or a string
WaitForStrings == {"None", "]]>]]>"}

\* the detected prompts of the hops before the target, slot 0 first
\* (generic.py lines 70-74, pexpect_ctrl.py lines 198-202)
EarlierPrompts == <<"FaKePrOmPt", "jump1$", "jump2$", "jump3$", "jump4$">>
TargetPrompt == "target#"
DetectedPrompts == SubSeq(EarlierPrompts, 1, NumHosts) \o <<TargetPrompt>>

\* compiled_prompts[:-1]
CompiledEarlierPrompts == SubSeq(DetectedPrompts, 1, Len(DetectedPrompts) - 1)

\* the transition appended for every earlier prompt, generic.py lines 449-450
RECURSIVE UnexpectedPromptTransitions(_)
UnexpectedPromptTransitions(prompts) ==
    IF prompts = <<>> THEN <<>>
    ELSE <<Tr(Head(prompts), <<0, 1>>, 0, CallAction("a_unexpected_prompt"), 0)>>
             \o UnexpectedPromptTransitions(Tail(prompts))

\* wait_for_prompt, generic.py lines 427-453
WaitForPromptEvents ==
    <<"syntax_error", "connection_closed", TargetPrompt, "press_return",
      "more", "TIMEOUT", "EOF", "buffer_overflow">> \o CompiledEarlierPrompts

WaitForPromptTransitions ==
    <<Tr("syntax_error", <<0>>, -1, ExcAction(Exc("CommandSyntaxError", "Command unknown")), 0),
      Tr("connection_closed", <<0>>, 1, CallAction("a_connection_closed"), 10),
      Tr("TIMEOUT", <<0>>, -1, ExcAction(Exc("CommandTimeoutError", "Timeout waiting for prompt")), 0),
      Tr("EOF", <<0, 1>>, -1, ExcAction(Exc("ConnectionError", "Unexpected device disconnect")), 0),
      Tr("more", <<0>>, 0, CallAction("a_send"), 10),
      Tr(TargetPrompt, <<0, 1>>, -1, CallAction("a_expected_prompt"), 0),
      Tr("press_return", <<0>>, -1, CallAction("a_stays_connected"), 0),
      Tr("buffer_overflow", <<0>>, -1, ExcAction(Exc("CommandSyntaxError", "Command too long")), 0)>>
        \o UnexpectedPromptTransitions(CompiledEarlierPrompts)

WaitForPromptTable == Compile(WaitForPromptTransitions, WaitForPromptEvents)

WaitForPrompt(timeout) ==
    [name |-> "WAIT-4-PROMPT", events |-> WaitForPromptEvents,
     table |-> WaitForPromptTable, init_pattern |-> "None", timeout |-> timeout,
     max_transitions |-> DefaultMaxTransitions]

\* _wait_for_string, generic.py lines 455-480
WaitForStringEvents(expected_string) ==
    <<"syntax_error", "connection_closed", "press_return", "more",
      "TIMEOUT", "EOF", expected_string>> \o CompiledEarlierPrompts

WaitForStringTransitions(expected_string) ==
    <<Tr("syntax_error", <<0>>, -1, ExcAction(Exc("CommandSyntaxError", "Command unknown")), 0),
      Tr("connection_closed", <<0>>, 1, CallAction("a_connection_closed"), 10),
      Tr("TIMEOUT", <<0>>, -1, ExcAction(Exc("CommandTimeoutError", "Timeout waiting for string")), 0),
      Tr("EOF", <<0, 1>>, -1, ExcAction(Exc("ConnectionError", "Unexpected device disconnect")), 0),
      Tr("more", <<0>>, 0, CallAction("a_send"), 10),
      Tr(expected_string, <<0>>, -1, CallAction("a_expected_string_received"), 0),
      Tr("press_return", <<0>>, -1, CallAction("a_stays_connected"), 0)>>
        \o UnexpectedPromptTransitions(CompiledEarlierPrompts)

WaitForStringTable ==
    [expected_string \in WaitForStrings \ {"None"} |->
        Compile(WaitForStringTransitions(expected_string),
                WaitForStringEvents(expected_string))]

WaitForString(expected_string, timeout) ==
    [name |-> "WAIT-4-STR", events |-> WaitForStringEvents(expected_string),
     table |-> WaitForStringTable[expected_string], init_pattern |-> "None",
     timeout |-> timeout, max_transitions |-> DefaultMaxTransitions]

\* the FSM _execute_command runs, generic.py lines 374-377
WaitFSM(wait_for_string, timeout) ==
    IF wait_for_string # "None" THEN WaitForString(wait_for_string, timeout)
    ELSE WaitForPrompt(timeout)

\* Connection.is_connected, generic.py lines 144-149
IsConnected == IF connected THEN ctrl.connected ELSE FALSE

\* faulty actions: every action that returns sets ctx.finished
ActionOutcome_AllFinish(name, session) ==
    CASE name \in {"a_send", "_send_lf", "_send_enable_password"} /\ session # "alive" ->
            Raised(Exc("OSError", "Bad file descriptor"))
      [] name = "a_unexpected_prompt" ->
            Raised(Exc("AttributeError", "'Context' object has no attribute 'detected_prompts'"))
      [] OTHER -> Returned(TRUE, TRUE)

\* what the actions of actions.py and of IOS.py return or raise. a_send,
\* _send_lf and _send_enable_password write to the session, which fails
\* when the session was closed; a_unexpected_prompt reads
\* ctx.detected_prompts, an attribute the context does not have
ActionOutcome(name, session) ==
    CASE name \in {"a_send", "_send_lf", "_send_enable_password"} ->
            IF session = "alive" THEN Returned(TRUE, FALSE)
            ELSE Raised(Exc("OSError", "Bad file descriptor"))
      [] name = "a_connection_closed" -> Returned(TRUE, FALSE)
      [] name = "a_stays_connected" -> Returned(TRUE, FALSE)
      [] name = "a_unexpected_prompt" ->
            Raised(Exc("AttributeError", "'Context' object has no attribute 'detected_prompts'"))
      [] name = "a_expected_prompt" -> Returned(TRUE, TRUE)
      [] name = "a_expected_string_received" -> Returned(TRUE, TRUE)
      [] OTHER -> Returned(TRUE, FALSE)

\* what the actions of actions.py do to the controller (ctx.ctrl)
ActionEffect(name, c, after) ==
    CASE name = "a_connection_closed" -> [c EXCEPT !.connected = FALSE]
      [] name = "a_stays_connected" ->
            [c EXCEPT !.connected = TRUE, !.last_hop = NumHosts - 1,
                      !.last_pattern = "press_return"]
      [] name = "a_expected_prompt" ->
            [c EXCEPT !.detected_prompts[Len(c.detected_prompts)] = after]
      [] OTHER -> c

\* faulty except clauses: CommandSyntaxError is raised again without the
\* command
ExecuteCommandExcept_NoCommand(e, cmd) ==
    CASE e.type = "CommandSyntaxError" -> e
      [] e.type \in {"CommandTimeoutError", "TIMEOUT"} ->
            [type |-> "CommandTimeoutError", message |-> "Command timeout", command |-> cmd]
      [] e.type \in ConnectionErrorTypes -> e
      [] e.type = "EOF" -> Exc("ConnectionError", "Unexpected session disconnect")
      [] OTHER -> Exc("ConnectionError", e.message)

\* the except clauses of _execute_command, generic.py lines 384-404: the
\* exception that leaves _execute_command when e was raised in its try block
ExecuteCommandExcept(e, cmd) ==
    CASE e.type = "CommandSyntaxError" -> [e EXCEPT !.command = cmd]
      [] e.type \in {"CommandTimeoutError", "TIMEOUT"} ->
            [type |-> "CommandTimeoutError", message |-> "Command timeout", command |-> cmd]
      [] e.type \in ConnectionErrorTypes -> e
      [] e.type = "EOF" -> Exc("ConnectionError", "Unexpected session disconnect")
      [] OTHER -> Exc("ConnectionError", e.message)

\* a faulty except clause of send: it catches the command errors too
SendCatches_CommandErrors(e) == e.type \in ConnectionErrorTypes \cup CommandErrorTypes

\* a faulty send without its except clause
SendCatches_Nothing(e) == FALSE

\* send, generic.py lines 173-178: the exceptions send catches to disconnect
SendCatches(e) == e.type \in ConnectionErrorTypes

\* Controller.disconnect, pexpect_ctrl.py lines 163-193
CtrlDisconnect(c) ==
    [c EXCEPT !.session = "closed", !.last_hop = 0, !.last_pattern = "None",
              !.connected = FALSE]

IdleRun == NewRun([timeout |-> 0, init_pattern |-> "None"])

\* what a caller of send can observe of the connection: is_connected, the
\* two connected flags, the controller's last_hop and session, and the
\* number of disconnects made
Observed ==
    [is_connected |-> IsConnected, connected |-> connected,
     ctrl_connected |-> ctrl.connected, last_hop |-> ctrl.last_hop,
     session |-> ctrl.session, disconnects |-> disconnects]

NoSnap ==
    [is_connected |-> FALSE, connected |-> FALSE, ctrl_connected |-> FALSE,
     last_hop |-> 0, session |-> "None", disconnects |-> 0]

\* a thread: the operation it called (op: send, disconnect, enable or
\* run_fsm), where it
\* is in it (pc), its command and arguments, the run of
\* the FSM it waits in, the exception raised in _execute_command (orig) and
\* the one that leaves it (exc), the value send returned, the last event
\* its FSM matched and the state the FSM was left in, what it observed
\* when it called send (pre) and how its previous send ended (prev)
IdleThread ==
    [op |-> "None", pc |-> "idle", nsend |-> 0, cmd |-> "", timeout |-> 0, wait_for_string |-> "None",
     wait |-> IdleRun, exc |-> NoExc, orig |-> NoExc, result |-> "None",
     last_event |-> "None", last_state |-> 0, pre |-> NoSnap, prev |-> "None"]

RECURSIVE SendsOf(_)
SendsOf(ts) ==
    IF ts = {} THEN 0
    ELSE LET t == CHOOSE u \in ts : TRUE IN th[t].nsend + SendsOf(ts \ {t})

\* the driver after a successful connect (generic.py lines 102-122): the
\* session is alive, every prompt of the chain is detected
ConnInit ==
    /\ connected = TRUE
    /\ ctrl = [connected |-> TRUE, last_hop |-> 0, last_pattern |-> "None",
               session |-> "alive", detected_prompts |-> DetectedPrompts,
               before |-> "None", written |-> <<>>]
    /\ command_execution_pending = "free"
    /\ th = [t \in Threads |-> IdleThread]
    /\ disconnects = 0

\* the pattern of the event matched in the pass that ended the run of the
\* FSM of thread t with record w ("None" when no pass ended it)
LastEvent(t, w) ==
    IF w.event = NoEvent THEN "None"
    ELSE WaitFSM(th[t].wait_for_string, th[t].timeout).events[w.event + 1]

\* the exception e leaves _execute_command of thread t: the lock is released
\* by the with statement, send catches ConnectionError to disconnect
LeaveWithException(t, e, w) ==
    LET out == ExecuteCommandExcept(e, th[t].cmd)
    IN  /\ command_execution_pending' = "free"
        /\ th' = [th EXCEPT ![t].wait = IdleRun, ![t].timeout = 0,
                            ![t].last_event = LastEvent(t, w),
                            ![t].last_state = w.state,
                            ![t].orig = e, ![t].exc = out,
                            ![t].pc = IF SendCatches(out) THEN "handler" ELSE "propagate"]

\* the thread after its send has ended: the caller holds the value returned
\* or the exception raised, the frame of send is gone
Ended(thread, pc) ==
    [thread EXCEPT !.pc = pc, !.cmd = "", !.timeout = 0, !.wait_for_string = "None",
                   !.orig = NoExc, !.last_event = "None", !.last_state = 0]

\* send is called: generic.py lines 170-171 and 189-190
SendCall(t) ==
    /\ th[t].pc \in {"idle", "returned", "raised"}
    /\ SendsOf(Threads) < MaxSends
    /\ \E timeout \in SendTimeouts, wfs \in WaitForStrings :
          LET started == [IdleThread EXCEPT !.op = "send",
                                            !.nsend = th[t].nsend + 1,
                                            !.cmd = CmdOf(t, th[t].nsend + 1),
                                            !.timeout = timeout,
                                            !.wait_for_string = wfs,
                                            !.pre = Observed,
                                            !.prev = IF th[t].pc = "raised"
                                                     THEN th[t].exc.type
                                                     ELSE th[t].pc]
          IN  IF connected
              THEN th' = [th EXCEPT ![t] = [started EXCEPT !.pc = "acquire"]]
              ELSE th' = [th EXCEPT ![t] =
                             Ended([started EXCEPT
                                      !.exc = Exc("ConnectionError", "Device not connected")],
                                   "raised")]
    /\ UNCHANGED <<connected, ctrl, command_execution_pending, disconnects, fsm_vars, orch, fac, trip, proto>>

\* a faulty lock that never blocks
CanAcquire_Always(lock) == TRUE

\* threading.Lock: acquire blocks while the lock is held
CanAcquire(lock) == lock = "free"

\* with self.command_execution_pending, generic.py line 370
Acquire(t) ==
    /\ th[t].pc = "acquire"
    /\ CanAcquire(command_execution_pending)
    /\ command_execution_pending' = t
    /\ th' = [th EXCEPT ![t].pc = "send_command"]
    /\ UNCHANGED <<connected, ctrl, disconnects, fsm_vars, orch, fac, trip, proto>>

\* _send_command, generic.py lines 362-367: the command is written and its
\* echo expected; expect_exact has no EOF in its list, so EOF is raised when
\* the session ends. On a session that has ended the write fails, or it is
\* EOF that is read; on a closed one the write fails
SendCommand(t) ==
    /\ th[t].pc = "send_command"
    /\ \/ /\ ctrl.session = "alive"
          /\ ctrl' = [ctrl EXCEPT !.written = Append(@, <<t, th[t].cmd>>),
                                  !.before = "None"]
          /\ th' = [th EXCEPT ![t].pc = "wait",
                              ![t].wait = NewRun(WaitFSM(th[t].wait_for_string,
                                                         th[t].timeout))]
          /\ UNCHANGED command_execution_pending
       \/ /\ ctrl.session = "alive"
          /\ ctrl' = [ctrl EXCEPT !.written = Append(@, <<t, th[t].cmd>>),
                                  !.session = "eof"]
          /\ LeaveWithException(t, Exc("EOF", ""), IdleRun)
       \/ /\ ctrl.session # "alive"
          /\ ctrl' = ctrl
          /\ LeaveWithException(t, Exc("OSError", "Bad file descriptor"), IdleRun)
       \/ /\ ctrl.session = "eof"
          /\ ctrl' = ctrl
          /\ LeaveWithException(t, Exc("EOF", ""), IdleRun)
    /\ UNCHANGED <<connected, disconnects, fsm_vars, orch, fac, trip, proto>>

\* a faulty session: expect returns any event of the list whether the
\* session is alive, ended or closed
WaitEvents_Deaf(m) == {Matched(i) : i \in 0..(Len(m.events) - 1)}

\* the events expect can return to the FSM of thread t: any event of the
\* list while the session is alive, only EOF after it ended. When the
\* session was closed by a disconnect of another thread, an expect that is
\* blocked in its read observes EOF, one that begins afterwards raises (see
\* WaitClosed)
WaitEvents(m) ==
    IF ctrl.session = "alive"
    THEN {Matched(i) : i \in 0..(Len(m.events) - 1)}
    ELSE {Matched(IndexOf(m.events, "EOF"))}

\* the session after expect returned ex: a session that returned EOF has
\* ended, a closed one stays closed
SessionAfter(m, ex, session) ==
    IF m.events[ex.index + 1] = "EOF" /\ session = "alive" THEN "eof" ELSE session

\* what _execute_command does when the FSM of thread t has ended with run
\* record w, generic.py lines 379-382 and the except clauses
AfterWait(t, w) ==
    CASE w.status = "true" ->
            /\ command_execution_pending' = "free"
            /\ th' = [th EXCEPT ![t].wait = IdleRun, ![t].timeout = 0,
                                ![t].last_event = LastEvent(t, w),
                                ![t].last_state = w.state,
                                ![t].pc = "executed"]
      [] w.status = "false" ->
            LeaveWithException(t, Exc("ConnectionError", "Unexpected session disconnect"), w)
      [] w.status = "raised" -> LeaveWithException(t, w.exc, w)
      [] OTHER ->
            \* ctx.event is assigned by expect before the next pass reads it
            /\ th' = [th EXCEPT ![t].wait = [w EXCEPT !.event = NoEvent]]
            /\ UNCHANGED command_execution_pending

\* one pass through the loop of FSM.run inside wait_for_prompt or
\* _wait_for_string: expect returns an event, the action of the transition
\* acts on the controller
WaitPass(t) ==
    /\ th[t].pc = "wait"
    /\ LET m == WaitFSM(th[t].wait_for_string, th[t].timeout)
           r == th[t].wait
       IN  /\ LoopCondition(m, r)
           /\ \E ex \in WaitEvents(m) :
                 LET a == PendingAction(m, r, ex)
                     res == ActionOutcome(a.name, ctrl.session)
                     w == RunStep(m, r, ex, res)
                     seen == [ctrl EXCEPT !.session = SessionAfter(m, ex, @),
                                          !.before = th[t].cmd]
                 IN  /\ ctrl' = IF a.kind = "call" /\ res.exc = NoExc
                                THEN ActionEffect(a.name, seen, m.events[ex.index + 1])
                                ELSE seen
                     /\ AfterWait(t, [w EXCEPT !.call = NoCall])
    /\ UNCHANGED <<connected, disconnects, fsm_vars, orch, fac, trip, proto>>

\* a pass of FSM.run after the session was closed by a disconnect: expect
\* raises ValueError (I/O operation on closed file)
WaitClosed(t) ==
    /\ th[t].pc = "wait"
    /\ ctrl.session = "closed"
    /\ LoopCondition(WaitFSM(th[t].wait_for_string, th[t].timeout), th[t].wait)
    /\ LeaveWithException(t, Exc("ValueError", "I/O operation on closed file"),
                          th[t].wait)
    /\ UNCHANGED <<connected, ctrl, disconnects, fsm_vars, orch, fac, trip, proto>>

\* the else clause of the loop of FSM.run: the FSM looped, run returns
\* False and _execute_command raises ConnectionError
WaitExhausted(t) ==
    /\ th[t].pc = "wait"
    /\ LET m == WaitFSM(th[t].wait_for_string, th[t].timeout)
           r == th[t].wait
       IN  /\ ~LoopCondition(m, r)
           /\ AfterWait(t, RunStep(m, r, RaisedEOF, Returned(TRUE, FALSE)))
    /\ UNCHANGED <<connected, ctrl, disconnects, fsm_vars, orch, fac, trip, proto>>

\* send returns the output, generic.py lines 180-187
SendReturn(t) ==
    /\ th[t].pc = "executed"
    /\ th' = [th EXCEPT ![t] = Ended([th[t] EXCEPT !.result = ctrl.before], "returned")]
    /\ UNCHANGED <<connected, ctrl, command_execution_pending, disconnects, fsm_vars, orch, fac, trip, proto>>

\* send caught ConnectionError: disconnect and raise, generic.py lines
\* 175-178 and 124-139
SendDisconnect(t) ==
    /\ th[t].pc = "handler"
    /\ ctrl' = CtrlDisconnect(ctrl)
    /\ connected' = FALSE
    /\ disconnects' = disconnects + 1
    /\ th' = [th EXCEPT ![t] = Ended(th[t], "raised")]
    /\ UNCHANGED <<command_execution_pending, fsm_vars, orch, fac, trip, proto>>

\* an exception send does not catch leaves send, generic.py lines 173-178
SendPropagate(t) ==
    /\ th[t].pc = "propagate"
    /\ th' = [th EXCEPT ![t] = Ended(th[t], "raised")]
    /\ UNCHANGED <<connected, ctrl, command_execution_pending, disconnects, fsm_vars, orch, fac, trip, proto>>

\* a call of disconnect, enable or run_fsm by thread t begins: the frame of the call
CallOf(t, op, cmd) ==
    [IdleThread EXCEPT !.op = op, !.nsend = th[t].nsend + 1, !.cmd = cmd, !.pre = Observed,
                       !.prev = IF th[t].pc = "raised" THEN th[t].exc.type
                                ELSE th[t].pc]

\* disconnect called by thread t, generic.py lines 124-139: the controller
\* says exit to the hops and closes the session, whoever is reading from it
Disconnect(t) ==
    /\ th[t].pc \in {"idle", "returned", "raised"}
    /\ SendsOf(Threads) < MaxSends
    /\ ctrl' = CtrlDisconnect(ctrl)
    /\ connected' = FALSE
    /\ disconnects' = disconnects + 1
    /\ th' = [th EXCEPT ![t] = Ended(CallOf(t, "disconnect", ""), "returned")]
    /\ UNCHANGED <<command_execution_pending, fsm_vars, orch, fac, trip, proto>>

\* enable of the IOS driver, IOS.py lines 101-119: the events and the
\* transitions of its FSM; prompt is compiled_prompts[-1]
EnableEvents == <<"enable", "password_prompt", TargetPrompt, "TIMEOUT", "EOF">>

\* faulty transitions: the enable password is sent again when the
\* password prompt comes back
EnableTransitions_Retry ==
    <<Tr("enable", <<0>>, 1, CallAction("_send_lf"), 10),
      Tr("password_prompt", <<1, 2>>, 2, CallAction("_send_enable_password"), 10),
      Tr(TargetPrompt, <<1, 2, 3>>, -1, NoneAction, 0),
      Tr("TIMEOUT", <<0, 1, 2>>, -1,
         ExcAction(Exc("ConnectionAuthenticationError", "Unable to get enable mode")), 0),
      Tr("EOF", <<0, 1, 2>>, -1, ExcAction(Exc("ConnectionError", "Device disconnected")), 0)>>

\* the transitions of enable, IOS.py lines 107-116
EnableTransitions ==
    <<Tr("enable", <<0>>, 1, CallAction("_send_lf"), 10),
      Tr("password_prompt", <<1>>, 2, CallAction("_send_enable_password"), 10),
      Tr("password_prompt", <<2>>, -1,
         ExcAction(Exc("ConnectionAuthenticationError", "Incorrect enable password")), 0),
      Tr(TargetPrompt, <<1, 2, 3>>, -1, NoneAction, 0),
      Tr("TIMEOUT", <<0, 1, 2>>, -1,
         ExcAction(Exc("ConnectionAuthenticationError", "Unable to get enable mode")), 0),
      Tr("EOF", <<0, 1, 2>>, -1, ExcAction(Exc("ConnectionError", "Device disconnected")), 0)>>

EnableTable == Compile(EnableTransitions, EnableEvents)

EnableFSM ==
    [name |-> "IOS-ENABLE", events |-> EnableEvents, table |-> EnableTable,
     init_pattern |-> "None", timeout |-> 10, max_transitions |-> DefaultMaxTransitions]

\* enable is called, IOS.py lines 101-103: "enable" is written to the
\* session and the FSM is made; the mutex is not taken
EnableCall(t) ==
    /\ th[t].pc \in {"idle", "returned", "raised"}
    /\ SendsOf(Threads) < MaxSends
    /\ IF ctrl.session = "alive"
       THEN /\ ctrl' = [ctrl EXCEPT !.written = Append(@, <<t, "enable">>)]
            /\ th' = [th EXCEPT ![t] = [CallOf(t, "enable", "enable") EXCEPT
                                          !.pc = "enable_wait",
                                          !.timeout = EnableFSM.timeout,
                                          !.wait = NewRun(EnableFSM)]]
       ELSE /\ ctrl' = ctrl
            /\ th' = [th EXCEPT ![t] =
                          Ended([CallOf(t, "enable", "enable") EXCEPT
                                   !.exc = Exc("OSError", "Bad file descriptor")],
                                "raised")]
    /\ UNCHANGED <<connected, command_execution_pending, disconnects, fsm_vars, orch, fac, trip, proto>>

\* what enable does when its FSM has ended with run record w, IOS.py line
\* 119: it returns what run returned, an exception of run leaves enable
AfterEnable(t, w) ==
    CASE w.status = "true" ->
            th' = [th EXCEPT ![t] = Ended([th[t] EXCEPT !.wait = IdleRun,
                                                        !.result = "True"], "returned")]
      [] w.status = "false" ->
            th' = [th EXCEPT ![t] = Ended([th[t] EXCEPT !.wait = IdleRun,
                                                        !.result = "False"], "returned")]
      [] w.status = "raised" ->
            th' = [th EXCEPT ![t] = Ended([th[t] EXCEPT !.wait = IdleRun,
                                                        !.exc = w.exc], "raised")]
      [] OTHER -> th' = [th EXCEPT ![t].wait = [w EXCEPT !.event = NoEvent]]

\* one pass through the loop of FSM.run inside enable: expect reads from
\* the session whoever else reads from it
EnablePass(t) ==
    /\ th[t].pc = "enable_wait"
    /\ LET m == EnableFSM
           r == th[t].wait
       IN  /\ LoopCondition(m, r)
           /\ \E ex \in WaitEvents(m) :
                 LET a == PendingAction(m, r, ex)
                     res == ActionOutcome(a.name, ctrl.session)
                     w == RunStep(m, r, ex, res)
                     seen == [ctrl EXCEPT !.session = SessionAfter(m, ex, @),
                                          !.before = th[t].cmd]
                 IN  /\ ctrl' = IF a.kind = "call" /\ res.exc = NoExc
                                THEN [seen EXCEPT !.written = Append(@, <<t, a.name>>)]
                                ELSE seen
                     /\ AfterEnable(t, [w EXCEPT !.call = NoCall])
    /\ UNCHANGED <<connected, command_execution_pending, disconnects, fsm_vars, orch, fac, trip, proto>>

\* a pass of the FSM of enable after the session was closed by a
\* disconnect: expect raises ValueError, which leaves enable
EnableClosed(t) ==
    /\ th[t].pc = "enable_wait"
    /\ ctrl.session = "closed"
    /\ LoopCondition(EnableFSM, th[t].wait)
    /\ th' = [th EXCEPT ![t] =
                  Ended([th[t] EXCEPT !.wait = IdleRun,
                                      !.exc = Exc("ValueError", "I/O operation on closed file")],
                        "raised")]
    /\ UNCHANGED <<connected, ctrl, command_execution_pending, disconnects, fsm_vars, orch, fac, trip, proto>>

\* the else clause of the loop of FSM.run inside enable: run returns False
EnableExhausted(t) ==
    /\ th[t].pc = "enable_wait"
    /\ ~LoopCondition(EnableFSM, th[t].wait)
    /\ AfterEnable(t, RunStep(EnableFSM, th[t].wait, RaisedEOF, Returned(TRUE, FALSE)))
    /\ UNCHANGED <<connected, ctrl, command_execution_pending, disconnects, fsm_vars, orch, fac, trip, proto>>

\* the command argument of run_fsm, as in the example of its docstring
RunFsmCommand == "rmdir disk0:/test"

\* run_fsm, generic.py lines 315-317: the command is sent without the
\* mutex, then FSM is called with the keyword max_transitions, which
\* FSM.__init__ (fsm.py line 114) does not accept: TypeError is raised and
\* no FSM runs
RunFsm(t) ==
    /\ th[t].pc \in {"idle", "returned", "raised"}
    /\ SendsOf(Threads) < MaxSends
    /\ LET cmd == RunFsmCommand
           leave(e) == th' = [th EXCEPT ![t] =
                                 Ended([CallOf(t, "run_fsm", cmd) EXCEPT !.exc = e], "raised")]
       IN  \/ /\ ctrl.session = "alive"
              /\ ctrl' = [ctrl EXCEPT !.written = Append(@, <<t, cmd>>),
                                      !.before = "None"]
              /\ leave(Exc("TypeError",
                           "__init__() got an unexpected keyword argument 'max_transitions'"))
           \/ /\ ctrl.session = "alive"
              /\ ctrl' = [ctrl EXCEPT !.written = Append(@, <<t, cmd>>),
                                      !.session = "eof"]
              /\ leave(Exc("EOF", ""))
           \/ /\ ctrl.session # "alive"
              /\ ctrl' = ctrl
              /\ leave(Exc("OSError", "Bad file descriptor"))
           \/ /\ ctrl.session = "eof"
              /\ ctrl' = ctrl
              /\ leave(Exc("EOF", ""))
    /\ UNCHANGED <<connected, command_execution_pending, disconnects, fsm_vars, orch, fac, trip, proto>>

\* ------------------------------------------------------------------------
\* Properties of send (checked under Spec)
\* ------------------------------------------------------------------------

\* no other thread has entered _execute_command: the others have not called
\* send, or wait for the lock in their first send
Undisturbed(t) ==
    \A u \in Threads \ {t} :
        th[u].nsend = 0 \/ (th[u].nsend = 1 /\ th[u].pc = "acquire")

\* an exception has left _execute_command of thread t, send has not yet
\* handled or propagated it
Leaving(t) == th[t].pc \in {"handler", "propagate"}

\* C6: when the FSM of wait_for_prompt matches the syntax-error pattern
\* (the buffer-overflow pattern) in state 0, send raises
\* CommandSyntaxError("Command unknown") ("Command too long") carrying the
\* command; it does not disconnect, and is_connected, the connected flags,
\* last_hop and the session are what they were when send was called
C6_SyntaxErrorKeepsConnection ==
    \A t \in Threads :
        /\ (/\ Leaving(t)
            /\ th[t].wait_for_string = "None"
            /\ th[t].last_state = 0
            /\ th[t].last_event \in {"syntax_error", "buffer_overflow"}) =>
              /\ th[t].pc = "propagate"
              /\ th[t].exc = [type |-> "CommandSyntaxError",
                              message |-> IF th[t].last_event = "syntax_error"
                                          THEN "Command unknown"
                                          ELSE "Command too long",
                              command |-> CmdOf(t, th[t].nsend)]
              /\ Undisturbed(t) => Observed = th[t].pre
        /\ (/\ th[t].op = "send"
            /\ th[t].pc = "raised"
            /\ th[t].exc.type = "CommandSyntaxError"
            /\ Undisturbed(t)) =>
              /\ th[t].exc.command = CmdOf(t, th[t].nsend)
              /\ Observed = th[t].pre

\* a send made while is_connected was False has raised
\* CommandSyntaxError("Command too long"): is_connected is still False, the
\* driver still connected
C6_Witness ==
    \E t \in Threads :
        /\ th[t].pc = "raised"
        /\ th[t].exc.type = "CommandSyntaxError"
        /\ th[t].exc.message = "Command too long"
        /\ Undisturbed(t)
        /\ ~th[t].pre.is_connected
        /\ ~IsConnected
        /\ connected

\* C7: when the FSM matches TIMEOUT in state 0, send raises
\* CommandTimeoutError and the connection is as it was when send was called:
\* the connected flags of the driver and of the controller, last_hop and the
\* session are unchanged, there was no disconnect, and a later send is
\* accepted (the driver is connected, the session alive)
C7_TimeoutKeepsConnection ==
    \A t \in Threads :
        /\ (Leaving(t) /\ th[t].last_state = 0 /\ th[t].last_event = "TIMEOUT") =>
              /\ th[t].pc = "propagate"
              /\ th[t].exc.type = "CommandTimeoutError"
              /\ th[t].exc.command = CmdOf(t, th[t].nsend)
              /\ Undisturbed(t) => Observed = th[t].pre
        /\ (th[t].pc = "raised" /\ th[t].exc.type = "CommandTimeoutError" /\ Undisturbed(t)) =>
              /\ Observed = th[t].pre
              /\ connected
              /\ ctrl.session = "alive"

\* a send has raised CommandTimeoutError and the next send of the thread
\* was accepted: its command is written, it waits for the prompt
C7_Witness ==
    \E t \in Threads :
        /\ th[t].prev = "CommandTimeoutError"
        /\ th[t].pc = "wait"
        /\ Undisturbed(t)
        /\ ctrl.written = <<<<t, CmdOf(t, 1)>>, <<t, CmdOf(t, 2)>>>>
        /\ disconnects = 0

\* C8 as stated: an exception that is neither ConnectionError nor EOF leaves
\* send as it was raised, not as ConnectionError, and without a disconnect
C8_OthersPropagateUnchanged ==
    \A t \in Threads :
        (Leaving(t) /\ th[t].orig.type \notin ConnectionErrorTypes \cup {"EOF"}) =>
            /\ th[t].exc.type = th[t].orig.type
            /\ th[t].pc = "propagate"

\* C8: ConnectionError and EOF make send call disconnect before it raises
\* ConnectionError, after which is_connected is False. Of the other
\* exceptions CommandSyntaxError leaves send with the command set and
\* CommandTimeoutError (or pexpect.TIMEOUT) as a new
\* CommandTimeoutError("Command timeout") with the command, both without
\* a disconnect; any other exception is converted to
\* ConnectionError(str(err)) and so makes send disconnect too
C8_ExceptionsOfSend ==
    \A t \in Threads :
        /\ Leaving(t) =>
              LET e == th[t].orig
                  cmd == CmdOf(t, th[t].nsend)
              IN  CASE e.type = "CommandSyntaxError" ->
                          /\ th[t].exc = [e EXCEPT !.command = cmd]
                          /\ th[t].pc = "propagate"
                    [] e.type \in {"CommandTimeoutError", "TIMEOUT"} ->
                          /\ th[t].exc = [type |-> "CommandTimeoutError",
                                          message |-> "Command timeout", command |-> cmd]
                          /\ th[t].pc = "propagate"
                    [] e.type \in ConnectionErrorTypes ->
                          /\ th[t].exc = e
                          /\ th[t].pc = "handler"
                    [] e.type = "EOF" ->
                          /\ th[t].exc = Exc("ConnectionError", "Unexpected session disconnect")
                          /\ th[t].pc = "handler"
                    [] OTHER ->
                          /\ th[t].exc = Exc("ConnectionError", e.message)
                          /\ th[t].pc = "handler"
        /\ (th[t].op = "send" /\ th[t].pc = "raised"
                /\ th[t].exc.type \in ConnectionErrorTypes) =>
              /\ ~IsConnected
              /\ ~connected
              /\ disconnects >= 1
        /\ (/\ th[t].op = "send"
            /\ th[t].pc = "raised"
            /\ th[t].exc.type \in CommandErrorTypes
            /\ Undisturbed(t)) =>
              disconnects = th[t].pre.disconnects

\* a write to a session that had ended raised OSError, which leaves
\* _execute_command as ConnectionError, to be handled by a disconnect
C8_Witness ==
    \E t \in Threads :
        /\ th[t].pc = "handler"
        /\ th[t].orig.type = "OSError"
        /\ th[t].exc.type = "ConnectionError"

\* C9 as stated: when send without wait_for_string returns normally, the
\* last event its FSM matched is the target prompt
C9_LastEventIsTargetPrompt ==
    \A t \in Threads :
        (th[t].pc = "executed" /\ th[t].wait_for_string = "None") =>
            th[t].last_event = TargetPrompt

\* C9: when send without wait_for_string returns normally, the last event
\* its FSM matched is the target prompt or the press-return pattern, never
\* the pager or any other event
C9_LastEventPromptOrPressReturn ==
    \A t \in Threads :
        (th[t].pc = "executed" /\ th[t].wait_for_string = "None") =>
            /\ th[t].last_event \in {TargetPrompt, "press_return"}
            /\ th[t].last_state = -1

\* a send without wait_for_string is about to return after the press-return
\* pattern, the controller marked as staying connected at the last jump host
C9_Witness ==
    \E t \in Threads :
        /\ th[t].pc = "executed"
        /\ th[t].wait_for_string = "None"
        /\ th[t].last_event = "press_return"
        /\ ctrl.last_pattern = "press_return"
        /\ ctrl.last_hop = NumHosts - 1

\* the commands written to the session by the sends, in order
WrittenBySend ==
    SelectSeq(ctrl.written, LAMBDA w : \E u \in Threads, n \in 1..4 : w = <<u, CmdOf(u, n)>>)

\* thread t is inside the with block of _execute_command
InCriticalSection(t) == th[t].pc \in {"send_command", "wait"}

\* C10: the critical sections of two sends never overlap, the command of a
\* thread that waits for the mutex is not written before the thread holding
\* it has left its critical section, and the mutex is free again after every
\* way out of the critical section
C10_SendsAreSerialised ==
    /\ \A t, u \in Threads : InCriticalSection(t) /\ InCriticalSection(u) => t = u
    /\ \A t \in Threads : InCriticalSection(t) <=> command_execution_pending = t
    /\ (\A t \in Threads : ~InCriticalSection(t)) <=> command_execution_pending = "free"
    /\ \A t \in Threads :
          th[t].pc = "acquire" => <<t, th[t].cmd>> \notin Range(ctrl.written)
    /\ \A t \in Threads :
          th[t].pc = "wait" => WrittenBySend[Len(WrittenBySend)] = <<t, th[t].cmd>>

\* one thread waits for the mutex while the other, which holds it, has
\* written its command and waits for the prompt
C10_Witness ==
    \E t, u \in Threads :
        /\ th[t].pc = "wait"
        /\ th[u].pc = "acquire"
        /\ command_execution_pending = t
        /\ ctrl.written = <<<<t, th[t].cmd>>>>

\* C12: every send that returns returns the output of its own command: the
\* text read by the expect calls of its own FSM, never what was read for the
\* command of another caller
C12_ReturnsOwnOutput ==
    \A t \in Threads :
        (th[t].op = "send" /\ th[t].pc = "returned") =>
            th[t].result = CmdOf(t, th[t].nsend)

\* a send has returned the output of the command of the other thread, whose
\* send entered its critical section before the first send read ctrl.before
C12_Witness ==
    \E t, u \in Threads :
        /\ t # u
        /\ th[t].op = "send"
        /\ th[t].pc = "returned"
        /\ th[u].op = "send"
        /\ th[u].nsend = 1
        /\ th[t].result = CmdOf(u, 1)

\* the send of thread t waits in expect and the session was closed under
\* it, by a disconnect of the other thread
Interrupted(t) ==
    /\ th[t].op = "send"
    /\ th[t].pc = "wait"
    /\ ctrl.session = "closed"

\* the next step of an interrupted send, and what send does with it
InterruptedStep(t) ==
    /\ Interrupted(t) /\ th'[t] # th[t] =>
          /\ th'[t].pc = "handler"
          /\ th'[t].exc.type = "ConnectionError"
          /\ command_execution_pending' = "free"
    /\ th[t].pc = "handler" /\ th'[t] # th[t] =>
          /\ th'[t].pc = "raised"
          /\ th'[t].exc = th[t].exc
          /\ ~connected'
          /\ ctrl'.session = "closed"

FsmRunning(t) == th[t].pc \in {"wait", "enable_wait"}

\* C11: on one session at most one FSM is running at any moment, whatever
\* the interleaving of the calls of send, run_fsm and enable
C11_OneFsmRunning ==
    \A t, u \in Threads : FsmRunning(t) /\ FsmRunning(u) => t = u

\* the FSM of a send, which holds the mutex, and the FSM of enable have both
\* made a pass and are both running
C11_Witness ==
    \E t, u \in Threads :
        /\ th[t].pc = "wait"
        /\ command_execution_pending = t
        /\ th[t].wait.transition_counter > 0
        /\ th[u].pc = "enable_wait"
        /\ th[u].wait.transition_counter > 0

\* ------------------------------------------------------------------------
\* The Connection object (condoor/__init__.py): connect and reconnect over
\* the alternative chains, discovery and the cache of device records
\* ------------------------------------------------------------------------

\* number of alternative chains given to the Connection, len(self._nodes)
NumAlternatives == 2

\* number of calls of connect, reconnect and disconnect made on the object
MaxFacadeCalls == 2

\* largest max_timeout given to reconnect and largest time measured by
\* it, in seconds
MaxTimeout == 2

Alternatives == 0..(NumAlternatives - 1)

\* what a call of connect of the driver comes to (generic.py lines 90-122):
\* it returns True, or raises one of the connection errors, an
\* AttributeError or another exception such as the TypeError of line 103
DriverOutcomes ==
    {"True", "ConnectionError", "ConnectionAuthenticationError", "ConnectionTimeoutError",
     "AttributeError", "TypeError"}

\* ConnectionError and its subclasses, exceptions.py lines 55-67: what
\* `except ConnectionError` catches
ConnectionErrors ==
    {"ConnectionError", "ConnectionAuthenticationError", "ConnectionTimeoutError"}

\* what discovery comes to after its driver connected (__init__.py lines
\* 414-455): the platform is known, it is not supported (RuntimeError), or a
\* command sent to the device raises ConnectionError
DiscoveryOutcomes == {"known", "unsupported", "ConnectionError"}

\* nothing was read of is_connected while a driver was being replaced
NoSeen == [at |-> "None", value |-> FALSE]

\* Connection.__init__, __init__.py lines 146-171, and no call made so far
NewFacade ==
    [last_driver_index |-> 0, discovered |-> FALSE, has_driver |-> FALSE,
     driver |-> [alt |-> 0, connected |-> FALSE, name |-> "None", ctrl |-> "None"],
     seen |-> NoSeen,
     cache |-> [present |-> FALSE, last_driver |-> 0],
     calls |-> 0, pc |-> "idle", op |-> "None", i |-> 0, start |-> 0, call_idx |-> 0,
     tried |-> <<>>, first |-> -1, latched |-> -1, latched0 |-> -1,
     expired |-> 0, max_timeout |-> 0, attempt |-> 0,
     cend |-> "None", cexc |-> NoExc, end |-> "None", exc |-> NoExc,
     was_connected |-> FALSE, hit |-> FALSE, replaced |-> FALSE, respawned |-> FALSE]

\* _init_driver, __init__.py lines 253-271: a new driver, not connected
\* and without a controller (generic.py lines 53 and 55), over the chain
\* self._nodes[self._last_driver_index]
InitDriver(f, name) ==
    [f EXCEPT !.has_driver = TRUE, !.replaced = TRUE,
              !.driver = [alt |-> f.last_driver_index, connected |-> FALSE, name |-> name,
                          ctrl |-> "None"]]

\* a faulty _shift_driver that does not go back to the first chain
ShiftDriver_NoWrap(f) ==
    InitDriver([f EXCEPT !.last_driver_index = @ + 1], "generic")

\* _shift_driver, __init__.py lines 273-280
ShiftDriver(f) ==
    InitDriver([f EXCEPT !.last_driver_index =
                             IF @ + 1 >= NumAlternatives THEN 0 ELSE @ + 1], "generic")

\* a faulty _read_cache that installs the record and leaves the device to
\* be discovered
ReadCache_Undiscovered(f, readable) ==
    IF readable /\ f.cache.present
    THEN [InitDriver([f EXCEPT !.last_driver_index = f.cache.last_driver], "IOS")
             EXCEPT !.hit = TRUE]
    ELSE [f EXCEPT !.hit = FALSE]

\* _read_cache, __init__.py lines 474-489, with the setter of
\* device_description_record, lines 748-766: when the cache file can be
\* read and holds a record of these chains, the index of the record is
\* taken and a new driver of the recorded platform is made
ReadCache(f, readable) ==
    IF readable /\ f.cache.present
    THEN [InitDriver([f EXCEPT !.last_driver_index = f.cache.last_driver], "IOS")
             EXCEPT !.discovered = TRUE, !.hit = TRUE]
    ELSE [f EXCEPT !.hit = FALSE]

\* _write_cache, __init__.py lines 462-472, when the file can be written
WriteCache(f, writable) ==
    IF writable
    THEN [f EXCEPT !.cache = [present |-> TRUE, last_driver |-> f.last_driver_index]]
    ELSE f

\* the beginning of connect, __init__.py lines 531-540, up to the first
\* call of connect of the driver, in discovery (lines 396-404) or in the
\* loop of connect itself
EnterConnect(f, readable) ==
    LET c == ReadCache(f, readable)
        d == IF ~c.discovered /\ ~c.has_driver THEN InitDriver(c, "generic") ELSE c
    IN  [d EXCEPT !.pc = IF c.discovered THEN "connect" ELSE "discovery",
                  !.i = 0, !.start = d.last_driver_index,
                  !.call_idx = d.last_driver_index,
                  !.tried = <<>>, !.cend = "None", !.cexc = NoExc]

\* connect returns or raises: to the caller, or into the try statement of
\* reconnect (__init__.py lines 587-594), where a return ends reconnect
ConnectEnds(f, end, exc) ==
    LET g == [f EXCEPT !.cend = end, !.cexc = exc]
    IN  CASE f.op = "connect" -> [g EXCEPT !.pc = "idle", !.end = end, !.exc = exc]
          [] end = "returned" -> [g EXCEPT !.pc = "idle", !.end = "returned"]
          [] OTHER -> [g EXCEPT !.pc = "reconnect_except"]

\* connect of the driver is called and comes to out. Of the calls before
\* the last the record keeps what the except clauses tell apart: any
\* connection error as ConnectionError. A driver that is not connected and
\* comes to True has made a controller and connected it from the first hop
Tried(f, phase, out) ==
    LET n == Len(f.tried)
        before == IF n = 0 THEN f.tried
                  ELSE [f.tried EXCEPT ![n].out = IF @ \in ConnectionErrors
                                                  THEN "ConnectionError" ELSE @]
    IN  [f EXCEPT !.tried = Append(before,
                                   [alt |-> f.driver.alt, phase |-> phase, out |-> out]),
                  !.first = IF @ = -1 THEN f.driver.alt ELSE @,
                  !.respawned = @ \/ (~f.driver.connected /\ out = "True")]

\* a call begins on the idle object
FacadeCall(f, op) ==
    [f EXCEPT !.calls = @ + 1, !.op = op, !.first = -1, !.latched0 = f.latched,
              !.latched = -1, !.end = "None", !.exc = NoExc, !.expired = 0,
              !.max_timeout = 0, !.attempt = 0, !.i = 0, !.start = 0, !.call_idx = 0,
              !.tried = <<>>, !.cend = "None", !.cexc = NoExc,
              !.was_connected = f.has_driver /\ f.driver.connected,
              !.hit = FALSE, !.replaced = FALSE, !.respawned = FALSE, !.seen = NoSeen]

\* Connection.connect is called, __init__.py line 515
FacadeConnectCall ==
    /\ fac.pc = "idle"
    /\ fac.calls < MaxFacadeCalls
    /\ \E readable \in BOOLEAN : fac' = EnterConnect(FacadeCall(fac, "connect"), readable)
    /\ UNCHANGED <<fsm_vars, conn_vars, orch, trip, proto>>

\* one pass through the loop of discovery, __init__.py lines 404-412, and
\* on success the rest of discovery up to the test of the driver's name,
\* lines 414-425: the controller of the generic driver is kept in a local
\* variable
DiscoveryTry ==
    /\ fac.pc = "discovery"
    /\ \E out \in DriverOutcomes, post \in DiscoveryOutcomes :
          LET f == Tried(fac, "discovery", out)
              c == [f EXCEPT !.driver.connected = TRUE, !.driver.ctrl = "Controller"]
              s == ShiftDriver(f)
          IN  fac' =
                CASE out = "True" /\ post = "unsupported" ->
                       ConnectEnds(c, "raised", Exc("RuntimeError", "Platform not supported"))
                  [] out = "True" /\ post = "ConnectionError" ->
                       ConnectEnds(c, "raised", Exc("ConnectionError", ""))
                  [] out = "True" /\ post = "known" -> [c EXCEPT !.pc = "init_driver"]
                  [] out \in ConnectionErrors ->
                       IF f.i + 1 = NumAlternatives
                       THEN ConnectEnds(s, "raised", Exc(out, ""))
                       ELSE [s EXCEPT !.i = f.i + 1]
                  [] OTHER -> ConnectEnds(f, "raised", Exc(out, ""))
    /\ UNCHANGED <<fsm_vars, conn_vars, orch, trip, proto>>

\* the steps of discovery in which a driver is being replaced
HandOver == {"set_ctrl", "set_connected"}

\* discovery makes the driver of the detected platform, __init__.py line
\* 427: _init_driver assigns the new driver to self._driver (line 271)
DiscoveryInitDriver ==
    /\ fac.pc = "init_driver"
    /\ fac' = [InitDriver(fac, "IOS") EXCEPT !.pc = "set_ctrl"]
    /\ UNCHANGED <<fsm_vars, conn_vars, orch, trip, proto>>

\* the controller kept at line 419 is given to the new driver,
\* __init__.py line 428
DiscoverySetCtrl ==
    /\ fac.pc = "set_ctrl"
    /\ fac' = [fac EXCEPT !.driver.ctrl = "Controller", !.pc = "set_connected"]
    /\ UNCHANGED <<fsm_vars, conn_vars, orch, trip, proto>>

\* the new driver is marked connected, __init__.py line 429, and the rest
\* of discovery, lines 431-455: the record is written to the cache
DiscoveryConnected ==
    /\ fac.pc = "set_connected"
    /\ \E writable \in BOOLEAN :
          LET n == [fac EXCEPT !.driver.connected = TRUE, !.discovered = TRUE]
          IN  fac' = [WriteCache(n, writable) EXCEPT !.pc = "connect", !.i = 0,
                                                     !.start = n.last_driver_index]
    /\ UNCHANGED <<fsm_vars, conn_vars, orch, trip, proto>>

\* is_connected of the driver, generic.py lines 144-149, over a controller
\* whose session is alive
DriverIsConnected(d) == IF d.connected THEN d.ctrl # "None" ELSE FALSE

\* another thread reads Connection.is_connected, __init__.py lines
\* 664-670, while discovery replaces the driver; the object has no lock
IsConnectedRead ==
    /\ fac.pc \in HandOver
    /\ fac.seen.at # fac.pc
    /\ fac' = [fac EXCEPT !.seen = [at |-> fac.pc, value |-> DriverIsConnected(fac.driver)]]
    /\ UNCHANGED <<fsm_vars, conn_vars, orch, trip, proto>>

\* one pass through the loop of connect, __init__.py lines 541-558
ConnectTry ==
    /\ fac.pc = "connect"
    /\ \E out \in DriverOutcomes :
          LET f == Tried(fac, "connect", out)
          IN  fac' =
                CASE out = "True" ->
                       ConnectEnds([f EXCEPT !.driver.connected = TRUE,
                                             !.driver.ctrl = "Controller",
                                             !.latched = f.driver.alt],
                                   "returned", NoExc)
                  [] out \in ConnectionErrors ->
                       IF f.i + 1 = NumAlternatives
                       THEN ConnectEnds(f, "raised", Exc(out, ""))
                       ELSE [ShiftDriver(f) EXCEPT !.i = f.i + 1]
                  [] out = "AttributeError" ->
                       ConnectEnds(f, "raised",
                                   Exc("ConnectionError",
                                       "Platform unknown. Try detect platform first"))
                  [] OTHER -> ConnectEnds(f, "raised", Exc(out, ""))
    /\ UNCHANGED <<fsm_vars, conn_vars, orch, trip, proto>>

\* Connection.reconnect is called, __init__.py lines 560-584
ReconnectCall ==
    /\ fac.pc = "idle"
    /\ fac.calls < MaxFacadeCalls
    /\ \E max_timeout \in 0..MaxTimeout :
          fac' = [FacadeCall(fac, "reconnect") EXCEPT !.pc = "reconnect_loop",
                                                      !.max_timeout = max_timeout,
                                                      !.attempt = 1]
    /\ UNCHANGED <<fsm_vars, conn_vars, orch, trip, proto>>

\* a faulty test of the loop that gives up one second early
TimeLeft_Short(f) == f.expired + 1 < f.max_timeout

\* the test of the while loop of reconnect, __init__.py line 585
TimeLeft(f) == f.expired < f.max_timeout

\* the while statement of reconnect, __init__.py lines 585-589 and 596-598:
\* connect is called, or the time is over
ReconnectLoop ==
    /\ fac.pc = "reconnect_loop"
    /\ \/ /\ TimeLeft(fac)
          /\ \E readable \in BOOLEAN : fac' = EnterConnect(fac, readable)
       \/ /\ ~TimeLeft(fac)
          /\ fac' = [fac EXCEPT
                       !.pc = "idle", !.end = "raised",
                       !.exc = Exc("ConnectionTimeoutError",
                                   "Unable to reconnect to device within {} s")]
    /\ UNCHANGED <<fsm_vars, conn_vars, orch, trip, proto>>

\* the except clauses of reconnect, __init__.py lines 590-595: connect
\* raised, after a time that is at least one second. An exception that is
\* neither a ConnectionError nor an AttributeError goes to the caller
ReconnectExcept ==
    /\ fac.pc = "reconnect_except"
    /\ \/ /\ fac.cexc.type \in ConnectionErrors
          /\ \E now \in (fac.expired + 1)..MaxTimeout :
                fac' = [ShiftDriver(fac) EXCEPT !.expired = now, !.attempt = @ + 1,
                                                !.pc = "reconnect_loop"]
       \/ /\ fac.cexc.type = "AttributeError"
          /\ fac' = [fac EXCEPT
                       !.pc = "idle", !.end = "raised",
                       !.exc = Exc("ConnectionError",
                                   "Platform unknown. Try detect platform first")]
       \/ /\ fac.cexc.type \notin ConnectionErrors \cup {"AttributeError"}
          /\ fac' = [fac EXCEPT !.pc = "idle", !.end = "raised", !.exc = fac.cexc]
    /\ UNCHANGED <<fsm_vars, conn_vars, orch, trip, proto>>

\* Connection.disconnect, __init__.py lines 600-610: disconnect of the
\* driver (generic.py lines 124-139), whose AttributeError, raised when
\* there is no driver, no controller or no session, is passed over
FacadeDisconnect ==
    /\ fac.pc = "idle"
    /\ fac.calls < MaxFacadeCalls
    /\ \E raises \in BOOLEAN :
          fac' = [FacadeCall(fac, "disconnect") EXCEPT
                    !.latched = fac.latched, !.end = "returned",
                    !.driver.connected = IF raises \/ ~fac.has_driver THEN @ ELSE FALSE]
    /\ UNCHANGED <<fsm_vars, conn_vars, orch, trip, proto>>

\* ------------------------------------------------------------------------
\* The device description record (condoor/__init__.py lines 735-766): the
\* record a Connection makes of itself after discovery, the cache that
\* keeps it, and a new Connection that installs it
\* ------------------------------------------------------------------------

\* the chassis PIDs of the inventories tried: none, and two of the tests
Pids == {"", "ASR-9904-AC", "A901-6CZ-FT-A"}

\* re.search(r"([A-Z]{1,3}[-| ]?[0-9]{3,4})", pid), __init__.py line 615:
\* group 1 of the match, "None" when the PID does not match
PidMatch(pid) ==
    CASE pid = "ASR-9904-AC" -> "ASR-9904"
      [] pid = "A901-6CZ-FT-A" -> "A901"
      [] OTHER -> "None"

\* parse_inventory, utils.py lines 147-191: the UDI of a chassis with this
\* PID, the empty UDI without an inventory
Udi(pid) ==
    IF pid = ""
    THEN [name |-> "", description |-> "", pid |-> "", vid |-> "", sn |-> ""]
    ELSE [name |-> "Rack 0", description |-> "Chassis", pid |-> pid, vid |-> "V01",
          sn |-> "FOX1830GT5W"]

\* _get_driver_name, __init__.py lines 235-251
GetDriverName(os_type) ==
    CASE os_type = "XR" -> "XR"
      [] os_type = "eXR" -> "XR64"
      [] os_type \in {"IOS", "XE"} -> "IOS"
      [] os_type = "NX-OS" -> "NX-OS"
      [] os_type = "Calvados" -> "Calvados"
      [] OTHER -> "generic"

\* the driver made by _init_driver for a Connection called name:
\* generic.py lines 49-74, with one hop to the target
TripDriver(driver_name, name) ==
    [name |-> driver_name, hostname |-> name, udi |-> Udi(""),
     detected_prompts |-> <<"FaKePrOmPt", "None">>]

\* Connection.__init__, __init__.py lines 146-179: the attributes the
\* record is made of, before any discovery, and no driver
TripConnection ==
    [hostname |-> "host", platform |-> "generic", os_type |-> "None", os_version |-> "None",
     family |-> "None", prompt |-> "None", is_console |-> "False", last_driver_index |-> 0,
     driver |-> TripDriver("None", "host")]

\* the property platform, __init__.py lines 612-620
Platform(c) ==
    IF PidMatch(c.driver.udi.pid) # "None" THEN PidMatch(c.driver.udi.pid) ELSE c.platform

\* the getter of device_description_record, __init__.py lines 735-746
DeviceDescriptionRecord(c) ==
    [driver_name |-> GetDriverName(c.os_type),
     device_info |-> [family |-> c.family, platform |-> Platform(c),
                      os_type |-> c.os_type, os_version |-> c.os_version],
     udi |-> c.driver.udi,
     hostname |-> c.hostname,
     console |-> c.is_console,
     device_prompt |-> c.prompt,
     detected_prompts |-> [i \in 1..Len(c.driver.detected_prompts) |->
                              c.driver.detected_prompts[i]],
     last_driver |-> c.last_driver_index]

\* determine_hostname of the driver, generic.py lines 416-425: the hostname
\* of the prompt, not-set when the prompt does not match
DetermineHostname(prompt) ==
    CASE prompt = "CSG-1202-ASR901>" -> "CSG-1202-ASR901"
      [] prompt = "RP/0/RSP0/CPU0:ios#" -> "ios"
      [] OTHER -> "not-set"

\* a faulty setter that leaves the UDI of the new driver as it is
SetDeviceDescriptionRecord_NoUdi(c, ddr) ==
    [c EXCEPT !.is_console = ddr.console,
              !.last_driver_index = ddr.last_driver,
              !.hostname = ddr.hostname,
              !.prompt = ddr.device_prompt,
              !.family = ddr.device_info.family,
              !.platform = ddr.device_info.platform,
              !.os_type = ddr.device_info.os_type,
              !.os_version = ddr.device_info.os_version,
              !.driver = [TripDriver(ddr.driver_name, ddr.hostname) EXCEPT
                            !.detected_prompts = ddr.detected_prompts,
                            !.hostname = DetermineHostname(ddr.device_prompt)]]

\* the setter of device_description_record, __init__.py lines 748-766
SetDeviceDescriptionRecord(c, ddr) ==
    [c EXCEPT !.is_console = ddr.console,
              !.last_driver_index = ddr.last_driver,
              !.hostname = ddr.hostname,
              !.prompt = ddr.device_prompt,
              !.family = ddr.device_info.family,
              !.platform = ddr.device_info.platform,
              !.os_type = ddr.device_info.os_type,
              !.os_version = ddr.device_info.os_version,
              !.driver = [TripDriver(ddr.driver_name, ddr.hostname) EXCEPT
                            !.udi = ddr.udi,
                            !.detected_prompts = ddr.detected_prompts,
                            !.hostname = DetermineHostname(ddr.device_prompt)]]

\* the Connections discovery leaves (__init__.py lines 414-453): the
\* version, type and family read from show version, the prompt and the
\* hostname of the driver, the console flag of _detect_console (None when
\* the port is not known), the driver of the platform with the prompts of
\* the controller and the UDI of the inventory
Discovered ==
    {[hostname |-> DetermineHostname(prompt), platform |-> platform, os_type |-> os_type,
      os_version |-> IF os_type \in {"IOS", "XE"} THEN "15.3(2)S1" ELSE "5.3.1",
      family |-> family, prompt |-> prompt, is_console |-> console,
      last_driver_index |-> k,
      driver |-> [name |-> GetDriverName(os_type), hostname |-> DetermineHostname(prompt),
                  udi |-> Udi(pid), detected_prompts |-> <<"FaKePrOmPt", target>>]] :
       os_type \in {"XR", "eXR", "IOS", "XE", "NX-OS", "Calvados"},
       platform \in {"generic", "ASR9K"},
       family \in {"ASR9K", "ASR900"},
       prompt \in {"CSG-1202-ASR901>", "RP/0/RSP0/CPU0:ios#", "switch"},
       console \in {"True", "False", "None"},
       k \in Alternatives,
       pid \in Pids,
       target \in {"CSG-1202-ASR901>", ""}}

\* no record
NoRecord ==
    [driver_name |-> "None",
     device_info |-> [family |-> "None", platform |-> "None", os_type |-> "None",
                      os_version |-> "None"],
     udi |-> Udi(""), hostname |-> "None", console |-> "None", device_prompt |-> "None",
     detected_prompts |-> <<>>, last_driver |-> 0]

\* _write_cache at the end of a discovery, __init__.py lines 462-472: the
\* record of the Connection is put in the cache. shelve pickles it; the
\* record is made of strings, a boolean or None, an integer, a list and
\* dictionaries of strings, which unpickle to equal values
TripWrite ==
    /\ trip.pc = "discovered"
    /\ trip' = [trip EXCEPT !.pc = "written",
                            !.cache = DeviceDescriptionRecord(trip.written_by)]
    /\ UNCHANGED <<fsm_vars, conn_vars, orch, fac, proto>>

\* _read_cache of a new Connection over the same chains, __init__.py lines
\* 474-489: the record is installed by the setter
TripRead ==
    /\ trip.pc = "written"
    /\ trip' = [trip EXCEPT !.pc = "installed",
                            !.read_by = SetDeviceDescriptionRecord(TripConnection,
                                                                   trip.cache)]
    /\ UNCHANGED <<fsm_vars, conn_vars, orch, fac, proto>>

\* the record of the new Connection is read back, __init__.py lines 735-746
TripReadBack ==
    /\ trip.pc = "installed"
    /\ trip' = [trip EXCEPT !.pc = "read_back",
                            !.back = DeviceDescriptionRecord(trip.read_by)]
    /\ UNCHANGED <<fsm_vars, conn_vars, orch, fac, proto>>

\* no record was written
NoTrip ==
    [pc |-> "None", written_by |-> TripConnection, cache |-> NoRecord,
     read_by |-> TripConnection, back |-> NoRecord]

\* ------------------------------------------------------------------------
\* The hop orchestrator (controllers/pexpect_ctrl.py) under the generic
\* driver: connect, the reconnect of a reload, the actions of send that
\* touch the controller, and disconnect
\* ------------------------------------------------------------------------

\* _clear_detected_prompts, pexpect_ctrl.py lines 198-202
ClearedPrompts == <<"FaKePrOmPt">> \o [i \in 1..NumHosts |-> "None"]

\* Controller.__init__, pexpect_ctrl.py lines 47-62
NewController ==
    [connected |-> FALSE, last_hop |-> 0, last_pattern |-> "None", is_target |-> FALSE,
     session |-> "None", detected_prompts |-> ClearedPrompts]

\* no call of Controller.connect was made yet
NoConnect ==
    [op |-> "None", lost |-> 0, last_hop |-> 0, start_hop |-> 0, detect_prompt |-> FALSE,
     hops |-> <<>>, result |-> "None", exc |-> NoExc, after |-> "None"]

\* Connection.__init__ of the generic driver, generic.py lines 49-74: not
\* connected, no controller yet
NewDriver ==
    [connected |-> FALSE, has_ctrl |-> FALSE, ctrl |-> NewController,
     lost |-> 0, last |-> NoConnect]

\* what happens at one hop of Controller.connect: the host is not valid or
\* not reachable, the protocol refuses (connect returns False), its
\* authenticate returns False, it raises ConnectionTimeoutError,
\* ConnectionAuthenticationError or another exception, the prompt is not
\* detected, or all goes well
HopOutcomes ==
    {"invalid", "unreachable", "refused", "auth_false", "timeout", "auth_error",
     "error", "no_prompt", "ok"}

\* the prompt detect_prompt finds on a host of the chain, counted from 1
\* (protocols/base.py line 235)
PromptOf(host) == DetectedPrompts[host + 1]

\* Controller.disconnect, pexpect_ctrl.py lines 163-193, with the exception
\* it raises when there is no session: self._session.close() on None
Disconnected(c) ==
    IF c.session = "None"
    THEN [ctrl |-> c, exc |-> Exc("AttributeError", "'NoneType' object has no attribute 'close'")]
    ELSE [ctrl |-> CtrlDisconnect(c), exc |-> NoExc]

\* a way out of Controller.connect: the controller, what connect returned
\* or raised and the hops it went through
ConnectEnd(c, result, exc, hops) ==
    [ctrl |-> c, result |-> result, exc |-> exc, hops |-> hops]

\* the else clause of the attempts loop, pexpect_ctrl.py lines 150-153:
\* disconnect and raise ConnectionError
MaxAttemptsReached(c, hops) ==
    LET d == Disconnected(c)
    IN  ConnectEnd(d.ctrl, "raised",
                   IF d.exc # NoExc THEN d.exc ELSE Exc("ConnectionError", ""), hops)

\* except ConnectionTimeoutError, pexpect_ctrl.py lines 136-139
TimeoutRaised(c, hops) ==
    LET d == Disconnected(c)
    IN  ConnectEnd(d.ctrl, "raised",
                   IF d.exc # NoExc THEN d.exc
                   ELSE Exc("ConnectionTimeoutError", "Connection Timeout"), hops)

\* a faulty connect that keeps the prompt of a hop when none was detected
RecordedPrompt_Kept(c, hop, host, detected) ==
    IF detected THEN PromptOf(host) ELSE c.detected_prompts[hop + 1]

\* protocol.prompt, protocols/base.py lines 85 and 235: the prompt found by
\* detect_prompt, the empty string when detect_prompt did not find one or
\* was not called
RecordedPrompt(c, hop, host, detected) == IF detected THEN PromptOf(host) ELSE ""

\* the loop over the hosts of Controller.connect, pexpect_ctrl.py lines
\* 105-155, from the i-th host of hosts[last_hop:] on: local is the local
\* variable connected, outs what happens at each host, hops the pairs
\* <<hop, host>> gone through so far. max_attempts is 1, the default of
\* line 47 which the generic driver does not change: one attempt per host
RECURSIVE ConnectLoop(_, _, _, _, _, _, _, _, _)
ConnectLoop(c, i, host_count, start_hop, local, spawn, detect_prompt, outs, hops) ==
    IF i > host_count
    THEN ConnectEnd(IF local THEN [c EXCEPT !.connected = TRUE] ELSE c,
                    IF local THEN "True" ELSE "False", NoExc, hops)
    ELSE LET hop == start_hop + i
             host == c.last_hop + i
             c1 == IF hop = host_count THEN [c EXCEPT !.is_target = TRUE] ELSE c
             seen == Append(hops, <<hop, host>>)
             \* make_protocol: the protocol spawns the session or uses it
             c2 == IF spawn THEN [c1 EXCEPT !.session = "alive"] ELSE c1
             o == outs[i]
         IN  CASE o = "invalid" ->
                    ConnectEnd(c1, "raised", Exc("ConnectionError", "Invalid host"), seen)
               [] o = "unreachable" -> MaxAttemptsReached(c1, seen)
               [] c2.session # "alive" ->
                    ConnectEnd(c2, "raised",
                               IF c2.session = "None"
                               THEN Exc("AttributeError",
                                        "'NoneType' object has no attribute 'expect'")
                               ELSE Exc("ValueError", "I/O operation on closed file"), seen)
               [] o = "timeout" -> TimeoutRaised(c2, seen)
               [] o = "auth_error" ->
                    ConnectEnd(c2, "raised",
                               Exc("ConnectionAuthenticationError", "Authentication failed"),
                               seen)
               [] o = "error" ->
                    ConnectEnd(c2, "raised", Exc("ConnectionError", "Connection error"), seen)
               [] o = "refused" -> MaxAttemptsReached(c2, seen)
               [] hop + 1 > Len(c2.detected_prompts) ->
                    \* self.detected_prompts[hop]
                    ConnectEnd(c2, "raised", Exc("IndexError", "list index out of range"), seen)
               [] OTHER ->
                    LET detected == detect_prompt /\ o = "ok"
                        now == CASE o = "auth_false" -> local
                                 [] o = "no_prompt" -> ~detect_prompt
                                 [] OTHER -> TRUE
                    IN  IF now
                        THEN ConnectLoop([c2 EXCEPT !.detected_prompts[hop + 1] =
                                                        RecordedPrompt(c2, hop, host, detected)],
                                         i + 1, host_count, start_hop, TRUE, spawn,
                                         detect_prompt, outs, seen)
                        ELSE MaxAttemptsReached(c2, seen)

\* a faulty connect that counts the hops from start_hop, not start_hop + 1
StartHop_CountsFromZero(c, start_hop) ==
    (IF c.last_hop > 0 /\ start_hop = 0 THEN c.last_hop ELSE start_hop) - 1

\* the hop connect begins at, pexpect_ctrl.py lines 98-99
StartHop(c, start_hop) == IF c.last_hop > 0 /\ start_hop = 0 THEN c.last_hop ELSE start_hop

\* Controller.connect, pexpect_ctrl.py lines 91-161
CtrlConnect(c, start_hop, spawn, detect_prompt, outs) ==
    ConnectLoop(c, 1, NumHosts - c.last_hop, StartHop(c, start_hop), c.connected,
                IF c.connected THEN FALSE ELSE spawn, detect_prompt, outs, <<>>)

\* what a call of Controller.connect on controller c did
ConnectRecord(op, c, start_hop, detect_prompt, r) ==
    [op |-> op, lost |-> orch.lost, last_hop |-> c.last_hop,
     start_hop |-> StartHop(c, start_hop), detect_prompt |-> detect_prompt,
     hops |-> r.hops, result |-> r.result, exc |-> r.exc, after |-> "None"]

\* what follows Controller.connect in connect of the driver, generic.py
\* lines 110-118: all goes well, the prompt of the target is one of rommon,
\* enable raises (IOS.py lines 110-111), or send of prepare_terminal_session
\* raises ConnectionError (generic.py line 442) or a CommandError (line 439)
AfterOutcomes == {"ok", "rommon", "enable_error", "session_lost", "command_error"}

\* lines 110-118 of generic.py on the connected driver d, whose call of
\* connect is recorded as rec: only send, which catches ConnectionError
\* (lines 175-178), disconnects the driver before the exception goes on
AfterConnect(d, rec, after) ==
    LET raised(e) == [rec EXCEPT !.result = "raised", !.exc = e, !.after = after]
    IN  CASE after = "rommon" ->
               [d EXCEPT !.last = raised(Exc("ConnectionError", "Device in rommon"))]
          [] after = "enable_error" ->
               [d EXCEPT !.last = raised(Exc("ConnectionAuthenticationError",
                                             "Incorrect enable password"))]
          [] after = "session_lost" ->
               [d EXCEPT !.connected = FALSE, !.ctrl = Disconnected(d.ctrl).ctrl,
                         !.last = raised(Exc("ConnectionError",
                                             "Unexpected device disconnect"))]
          [] after = "command_error" ->
               [d EXCEPT !.last = raised(Exc("CommandSyntaxError", "Command unknown"))]
          [] OTHER -> [d EXCEPT !.last = [rec EXCEPT !.after = after]]

\* connect of the driver, generic.py lines 102-122: a driver that is not
\* connected makes a new controller and connects it from hop 0, a
\* connected one keeps its controller and does not call its connect; the
\* connected driver then goes through lines 110-118. The controller class is an argument of the
\* driver (controller_class); called as in line 103, with the hosts and the
\* account manager, the constructor of Controller (pexpect_ctrl.py line 47)
\* raises TypeError, one that takes these arguments returns a controller
GenericConnect ==
    \/ /\ ~orch.connected
       /\ orch' = [orch EXCEPT
                     !.last = [NoConnect EXCEPT
                                 !.op = "connect", !.lost = orch.lost, !.result = "raised",
                                 !.exc = Exc("TypeError", "__init__() takes at least 4 arguments")]]
    \/ /\ ~orch.connected
       /\ \E outs \in [1..NumHosts -> HopOutcomes] :
             LET r == CtrlConnect(NewController, 0, TRUE, TRUE, outs)
                 rec == ConnectRecord("connect", NewController, 0, TRUE, r)
                 d == [connected |-> r.result = "True", has_ctrl |-> TRUE,
                       ctrl |-> r.ctrl,
                       lost |-> IF r.result = "True" THEN 0 ELSE orch.lost,
                       last |-> IF r.result = "False"
                                THEN [rec EXCEPT !.result = "raised",
                                                 !.exc = Exc("ConnectionError",
                                                             "Connection failed")]
                                ELSE rec]
             IN  IF d.connected
                 THEN \E after \in AfterOutcomes : orch' = AfterConnect(d, rec, after)
                 ELSE orch' = d
    \/ /\ orch.connected
       /\ \E after \in AfterOutcomes :
             orch' = AfterConnect(orch, [NoConnect EXCEPT !.op = "connect_skipped",
                                                         !.lost = orch.lost,
                                                         !.result = "True"], after)
    /\ UNCHANGED <<fsm_vars, conn_vars, fac, trip, proto>>

\* a_reconnect and a_return_and_reconnect, actions.py lines 137-147, called
\* by the FSM of reload on a connected driver:
\* ctrl.connect(start_hop=len(hosts) - 1, spawn=False, detect_prompt=False)
ReloadConnect ==
    /\ orch.connected
    /\ \E outs \in [1..NumHosts -> HopOutcomes] :
          LET r == CtrlConnect(orch.ctrl, NumHosts - 1, FALSE, FALSE, outs)
          IN  orch' = [orch EXCEPT
                         !.ctrl = r.ctrl,
                         !.lost = IF r.result = "True" THEN 0 ELSE @,
                         !.last = ConnectRecord("reconnect", orch.ctrl, NumHosts - 1,
                                                FALSE, r)]
    /\ UNCHANGED <<fsm_vars, conn_vars, fac, trip, proto>>

\* the actions the FSM of send calls on the controller (actions.py lines
\* 80-115): the connection to the last hop was closed, the session stays
\* connected at the hop before the target, the target prompt was matched
SendActions == {"a_connection_closed", "a_stays_connected", "a_expected_prompt"}

\* send on the connected driver, as far as the controller goes: the action
\* of a transition of wait_for_prompt acts on it
SendActs ==
    /\ orch.connected
    /\ orch.ctrl.session = "alive"
    /\ \E name \in SendActions :
          orch' = [orch EXCEPT
                     !.ctrl = ActionEffect(name, @, TargetPrompt),
                     !.lost = IF name = "a_stays_connected" THEN NumHosts - 1 ELSE @,
                     !.last = [NoConnect EXCEPT !.op = name, !.lost = orch.lost]]
    /\ UNCHANGED <<fsm_vars, conn_vars, fac, trip, proto>>

\* disconnect of the driver, generic.py lines 124-139: without a controller
\* self.ctrl is None, without a session Controller.disconnect raises
GenericDisconnect ==
    /\ LET d == Disconnected(orch.ctrl)
           rec(e) == [NoConnect EXCEPT !.op = "disconnect", !.lost = orch.lost, !.exc = e,
                                       !.result = IF e = NoExc THEN "None" ELSE "raised"]
       IN  CASE ~orch.has_ctrl ->
                  orch' = [orch EXCEPT
                             !.last = rec(Exc("AttributeError",
                                              "'NoneType' object has no attribute 'disconnect'"))]
             [] d.exc # NoExc -> orch' = [orch EXCEPT !.last = rec(d.exc)]
             [] OTHER -> orch' = [orch EXCEPT !.ctrl = d.ctrl, !.connected = FALSE,
                                              !.last = rec(NoExc)]
    /\ UNCHANGED <<fsm_vars, conn_vars, fac, trip, proto>>

\* ------------------------------------------------------------------------
\* The dialogs with the device that FSM.run drives on one controller: the
\* authenticate FSM of telnet (protocols/telnet.py), the connect and
\* authenticate FSMs of ssh (protocols/ssh.py) and the enable dialog of IOS
\* (platforms/IOS.py), with the actions they call (actions.py,
\* protocols/base.py) and Controller.disconnect in full
\* ------------------------------------------------------------------------

\* the bound of the loop of Controller.disconnect, pexpect_ctrl.py line 172
MaxExitHops == 10

\* what the device does while Controller.disconnect sends exit: EOF comes
\* after the eof_at-th exit, the console of a terminal server shows up
\* after the console_at-th one, which is one of the hops of the chain (0:
\* never); every other expect times out
DisconnectEnvs ==
    {e \in [eof_at : 0..(MaxExitHops + 1), console_at : 0..NumHosts] :
        e.console_at = 0 \/ e.console_at # e.eof_at}

NoDisconnectEnv == [eof_at |-> 0, console_at |-> 0]

\* the index returned by the expect of line 174 after the exit sent with
\* hop = 0, 1, ...: 0 is TIMEOUT, 1 is EOF, 2 the console of a terminal
\* server
ExpectAfterExit(env, hop) ==
    CASE hop + 1 = env.eof_at -> 1
      [] hop + 1 = env.console_at -> 2
      [] OTHER -> 0

\* what the loop of Controller.disconnect did: the number of exit lines
\* sent, whether it left with EOF, the number of console escapes sent
NoExits == [exits |-> 0, eof |-> FALSE, escapes |-> 0]

\* the while loop of Controller.disconnect, pexpect_ctrl.py lines 172-187
RECURSIVE ExitLoop(_, _, _, _)
ExitLoop(index, hop, env, l) ==
    IF index # 1 /\ hop < MaxExitHops
    THEN LET i == ExpectAfterExit(env, hop)
             sent == [l EXCEPT !.exits = @ + 1]
         IN  IF i = 1
             THEN [sent EXCEPT !.eof = TRUE]
             ELSE ExitLoop(i, hop + 1, env,
                           IF i = 2 THEN [sent EXCEPT !.escapes = @ + 1] ELSE sent)
    ELSE l

\* a call of Controller.disconnect, pexpect_ctrl.py lines 163-193, on
\* controller c: the loop runs when there is a session and it is alive
\* (line 168), then the session is closed and the flags are reset; without
\* a session self._session.close() raises. from is the session the call
\* found, env what the device did
ControllerDisconnect(c, env) ==
    LET l == IF c.session = "alive" THEN ExitLoop(0, 0, env, NoExits) ELSE NoExits
        d == Disconnected(c)
    IN  [ctrl |-> d.ctrl, exc |-> d.exc,
         call |-> [called |-> TRUE, from |-> c.session, env |-> env, exits |-> l.exits,
                   eof |-> l.eof, escapes |-> l.escapes, closed |-> d.exc = NoExc]]

NoDisconnect ==
    [called |-> FALSE, from |-> "None", env |-> NoDisconnectEnv, exits |-> 0,
     eof |-> FALSE, escapes |-> 0, closed |-> FALSE]

\* no pass of the FSM was made yet
NoPass == [pattern |-> "None", state |-> 0, kind |-> "None", action |-> ""]

\* the state of SpecProto when no dialog is run
NoProto ==
    [case |-> "None", is_target |-> FALSE, password |-> "None", ctrl |-> NewController,
     pc |-> "idle", passwords |-> 0, spawned |-> <<>>, interrupts |-> 0, retries |-> 0,
     path |-> <<>>, hops |-> <<>>,
     disconnect |-> NoDisconnect, last |-> NoPass, op |-> "None", result |-> "None",
     exc |-> NoExc]

\* Telnet.authenticate, telnet.py lines 87-109: the events and the
\* transitions; the password of a_send_password is what _acquire_password
\* returned when the table was made
TelnetAuthEvents ==
    <<"username", "password", "prompt", "rommon", "unable_to_connect", "AUTH_FAILED",
      "TIMEOUT", "EOF">>

TelnetAuthTransitions ==
    <<Tr("username", <<0>>, 1, CallAction("a_send_line"), 10),
      Tr("username", <<1>>, 1, NoneAction, 10),
      Tr("password", <<0, 1>>, 2, CallAction("a_send_password"), 20),
      Tr("username", <<2>>, -1, CallAction("a_authentication_error"), 0),
      Tr("password", <<2>>, -1, CallAction("a_authentication_error"), 0),
      Tr("prompt", <<0, 1, 2>>, -1, NoneAction, 0),
      Tr("rommon", <<0>>, -1, CallAction("a_send"), 0),
      Tr("TIMEOUT", <<0>>, 1, CallAction("a_send"), 10),
      Tr("TIMEOUT", <<2>>, -1, NoneAction, 0),
      Tr("AUTH_FAILED", <<2>>, -1, CallAction("a_authentication_error"), 0),
      Tr("TIMEOUT", <<3, 7>>, -1,
         ExcAction(Exc("ConnectionTimeoutError", "Connection Timeout")), 0)>>

\* the default of the timeout argument of FSM.__init__, fsm.py line 114
DefaultTimeout == 300

TelnetAuthenticate(init_pattern) ==
    MakeFSM("TELNET-AUTH", TelnetAuthEvents, TelnetAuthTransitions, init_pattern,
            DefaultTimeout, DefaultMaxTransitions)

\* SSH.connect, ssh.py lines 66-103
SshConnectEvents ==
    <<"password_prompt", "prompt", "UNABLE_TO_CONNECT", "RESET_BY_PEER", "NEWSSHKEY",
      "KNOWN_HOSTS", "HOST_KEY_FAILED", "MODULUS_TOO_SMALL", "PROTOCOL_DIFFER", "TIMEOUT">>

\* the transitions of SSH.connect, ssh.py lines 85-100
SshConnectTransitions ==
    <<Tr("password_prompt", <<0, 1, 4>>, -1, CallAction("save_pattern"), 0),
      Tr("prompt", <<0>>, -1, CallAction("save_pattern"), 0),
      Tr("UNABLE_TO_CONNECT", <<0>>, -1, CallAction("unable_to_connect"), 0),
      Tr("RESET_BY_PEER", <<0>>, -1, CallAction("unable_to_connect"), 0),
      Tr("NEWSSHKEY", <<0>>, 1, CallAction("send_yes"), 10),
      Tr("KNOWN_HOSTS", <<1>>, 0, NoneAction, 0),
      Tr("HOST_KEY_FAILED", <<0>>, -1, ExcAction(Exc("ConnectionError", "Host key failed")), 0),
      Tr("MODULUS_TOO_SMALL", <<0>>, 0, CallAction("fallback_to_sshv1"), 0),
      Tr("PROTOCOL_DIFFER", <<0>>, 4, CallAction("fallback_to_sshv1"), 0),
      Tr("PROTOCOL_DIFFER", <<4>>, -1,
         ExcAction(Exc("ConnectionError", "Protocol version differs")), 0),
      Tr("TIMEOUT", <<0>>, 5, CallAction("send_new_line"), 10),
      Tr("TIMEOUT", <<5>>, -1, ExcAction(Exc("ConnectionTimeoutError", "Connection timeout")), 0)>>

SshConnect ==
    MakeFSM("SSH-CONNECT", SshConnectEvents, SshConnectTransitions, "None", 30,
            DefaultMaxTransitions)

\* SSH.authenticate, ssh.py lines 105-137: on a timeout after the password
\* the target raises, a jump host is sent a new line
SshAuthEvents == <<"PRESS_RETURN", "password_prompt", "prompt", "TIMEOUT">>

SshAuthTransitions(is_target) ==
    <<Tr("PRESS_RETURN", <<0, 1>>, 1, CallAction("send_new_line"), 10),
      Tr("password_prompt", <<0>>, 1, CallAction("send_pass"), 20),
      Tr("password_prompt", <<1>>, -1,
         ExcAction(Exc("ConnectionAuthenticationError", "Authentication error")), 0),
      Tr("prompt", <<0, 1>>, -1, NoneAction, 0),
      Tr("TIMEOUT", <<1>>, -1,
         IF is_target THEN ExcAction(Exc("ConnectionError", "Error getting device prompt"))
         ELSE CallAction("send_new_line"), 0)>>

SshAuthenticate(is_target, init_pattern) ==
    MakeFSM("SSH-AUTH", SshAuthEvents, SshAuthTransitions(is_target), init_pattern, 30,
            DefaultMaxTransitions)

\* Telnet.connect, telnet.py lines 57-85, and TelnetConsole.connect, lines
\* 121-149: the two tables differ in the action of the first transition
\* only (None, or a_send of a new line on the console)
TelnetConnectEvents ==
    <<"ESCAPE_CHAR", "press_return", "standby", "username", "password", "more",
      "prompt", "rommon", "unable_to_connect", "TIMEOUT", "PASSWORD_OK">>

\* a faulty table: a TIMEOUT in state 5 sends the new line again and goes
\* back to state 0
TelnetConnectTransitions_RetryAgain(escape_action) ==
    <<Tr("ESCAPE_CHAR", <<0>>, 1, escape_action, 20),
      Tr("press_return", <<0, 1>>, 1, CallAction("a_send"), 10),
      Tr("PASSWORD_OK", <<0, 1>>, 1, CallAction("a_send"), 10),
      Tr("standby", <<0, 5>>, -1, ExcAction(Exc("ConnectionError", "Standby console")), 0),
      Tr("username", <<0, 1, 5, 6>>, -1, CallAction("a_save_last_pattern"), 0),
      Tr("password", <<0, 1, 5>>, -1, CallAction("a_save_last_pattern"), 0),
      Tr("more", <<0, 5>>, 7, CallAction("a_send"), 10),
      Tr("more", <<7>>, 8, NoneAction, 10),
      Tr("prompt", <<0, 1, 5>>, 0, NoneAction, 10),
      Tr("prompt", <<6, 8, 5>>, -1, CallAction("a_save_last_pattern"), 0),
      Tr("rommon", <<0, 1, 5>>, -1, CallAction("a_save_last_pattern"), 0),
      Tr("unable_to_connect", <<0, 1>>, -1, CallAction("a_unable_to_connect"), 0),
      Tr("TIMEOUT", <<0, 1>>, 5, CallAction("a_send"), 10),
      Tr("TIMEOUT", <<5>>, 0, CallAction("a_send"), 10)>>

TelnetConnectTransitions(escape_action) ==
    <<Tr("ESCAPE_CHAR", <<0>>, 1, escape_action, 20),
      Tr("press_return", <<0, 1>>, 1, CallAction("a_send"), 10),
      Tr("PASSWORD_OK", <<0, 1>>, 1, CallAction("a_send"), 10),
      Tr("standby", <<0, 5>>, -1, ExcAction(Exc("ConnectionError", "Standby console")), 0),
      Tr("username", <<0, 1, 5, 6>>, -1, CallAction("a_save_last_pattern"), 0),
      Tr("password", <<0, 1, 5>>, -1, CallAction("a_save_last_pattern"), 0),
      Tr("more", <<0, 5>>, 7, CallAction("a_send"), 10),
      Tr("more", <<7>>, 8, NoneAction, 10),
      Tr("prompt", <<0, 1, 5>>, 0, NoneAction, 10),
      Tr("prompt", <<6, 8, 5>>, -1, CallAction("a_save_last_pattern"), 0),
      Tr("rommon", <<0, 1, 5>>, -1, CallAction("a_save_last_pattern"), 0),
      Tr("unable_to_connect", <<0, 1>>, -1, CallAction("a_unable_to_connect"), 0),
      Tr("TIMEOUT", <<0, 1>>, 5, CallAction("a_send"), 10),
      Tr("TIMEOUT", <<5>>, -1,
         ExcAction(Exc("ConnectionTimeoutError", "Connection timeout")), 0)>>

TelnetConnectNames == {"TELNET-CONNECT", "TELNET-CONNECT-CONSOLE"}

\* the FSM of connect; init_pattern is the last_pattern of the controller
TelnetConnect(name, init_pattern) ==
    MakeFSM(name, TelnetConnectEvents,
            TelnetConnectTransitions(IF name = "TELNET-CONNECT" THEN NoneAction
                                     ELSE CallAction("a_send")),
            init_pattern, DefaultTimeout, DefaultMaxTransitions)

\* reload of XR.py lines 67-125 and of XR64.py lines 84-148: the
\* transitions the two tables share (XR.py lines 96-109, XR64.py lines
\* 114-130), with reload_timeout at its default of 300
ReloadSharedTransitions ==
    <<Tr("CONSOLE", <<3, 4>>, 5, NoneAction, 600),
      Tr("press_return", <<5>>, 6, CallAction("_send_lf"), 300),
      Tr("RECONFIGURE_USERNAME_PROMPT", <<6, 7>>, -1, NoneAction, 0),
      Tr("CONFIGURATION_IN_PROCESS", <<6>>, 7, NoneAction, 180),
      Tr("CONFIGURATION_COMPLETED", <<7>>, -1, CallAction("_return_and_authenticate"), 0),
      Tr("TIMEOUT", <<0, 1, 2>>, -1,
         ExcAction(Exc("ConnectionAuthenticationError", "Unable to reload")), 0),
      Tr("EOF", <<0, 1, 2, 3, 4, 5>>, -1,
         ExcAction(Exc("ConnectionError", "Device disconnected")), 0),
      Tr("TIMEOUT", <<6>>, 7, CallAction("_send_line"), 180),
      Tr("TIMEOUT", <<7>>, -1,
         ExcAction(Exc("ConnectionAuthenticationError",
                       "Unable to reconnect after reloading")), 0)>>

XRReloadEvents ==
    <<"RELOAD_NA", "RELOAD", "DONE", "PROCEED", "CONFIGURATION_IN_PROCESS", "rommon",
      "press_return", "CONSOLE", "CONFIGURATION_COMPLETED", "RECONFIGURE_USERNAME_PROMPT",
      "TIMEOUT", "EOF">>

XRReloadTransitions ==
    <<Tr("RELOAD", <<0>>, 1, CallAction("_send_lf"), 300),
      Tr("RELOAD_NA", <<1>>, -1, CallAction("_reload_na"), 0),
      Tr("DONE", <<1>>, 2, NoneAction, 120),
      Tr("PROCEED", <<2>>, 3, CallAction("_send_lf"), 300),
      Tr("rommon", <<0, 3>>, 4, CallAction("_send_boot"), 600)>>
        \o ReloadSharedTransitions

XR64ReloadEvents ==
    <<"RELOAD_NA", "RELOAD", "CONFIRM_RELOAD", "DONE", "STBY_CONSOLE",
      "CONFIGURATION_IN_PROCESS", "press_return", "CONSOLE", "CONFIGURATION_COMPLETED",
      "RECONFIGURE_USERNAME_PROMPT", "TIMEOUT", "EOF">>

XR64ReloadTransitions ==
    <<Tr("RELOAD", <<0>>, 1, NoneAction, 120),
      Tr("RELOAD_NA", <<1>>, -1, CallAction("_reload_na"), 0),
      Tr("CONFIRM_RELOAD", <<1>>, 2, CallAction("_send_yes"), 120),
      Tr("DONE", <<2>>, 3, NoneAction, 300),
      Tr("STBY_CONSOLE", <<3>>, -1, NoneAction, 10)>>
        \o ReloadSharedTransitions

\* the FSM of reload, XR.py line 124 and XR64.py line 147
ReloadFSM(platform) ==
    IF platform = "XR"
    THEN MakeFSM("RELOAD", XRReloadEvents, XRReloadTransitions, "None", 10,
                 DefaultMaxTransitions)
    ELSE MakeFSM("RELOAD", XR64ReloadEvents, XR64ReloadTransitions, "None", 10,
                 DefaultMaxTransitions)

\* the dialogs: the FSM, whether the hop is the target, the password of the
\* hop ("None": none in the URL and none from the account manager, what
\* _acquire_password of base.py lines 245-265 returns then; for enable the
\* password _get_enable_password of IOS.py lines 60-65 returns) and the
\* pattern the FSM starts with. enable runs on the target of a connected
\* controller
Passwords == {"None", "secret"}

ProtoCases ==
    {[fsm |-> TelnetAuthenticate(ip), is_target |-> t, password |-> pw] :
        ip \in {"None", "username", "password"}, t \in BOOLEAN, pw \in Passwords}
    \cup {[fsm |-> TelnetConnect(n, ip), is_target |-> TRUE, password |-> "secret"] :
            n \in TelnetConnectNames, ip \in {"None", "press_return"}}
    \cup {[fsm |-> SshConnect, is_target |-> TRUE, password |-> "secret"]}
    \cup {[fsm |-> SshAuthenticate(t, ip), is_target |-> t, password |-> pw] :
            ip \in {"None", "password_prompt"}, t \in BOOLEAN, pw \in Passwords}
    \cup {[fsm |-> EnableFSM, is_target |-> TRUE, password |-> pw] : pw \in Passwords}
    \cup {[fsm |-> ReloadFSM(platform), is_target |-> TRUE, password |-> "secret"] :
            platform \in {"XR", "XR64"}}

\* the controllers disconnect can be called on: never spawned (as its
\* constructor left it), or with a process that is alive or has died, at
\* any hop and with any flags
Controllers ==
    {NewController}
    \cup {[NewController EXCEPT !.session = s, !.connected = c, !.last_hop = h,
                                !.last_pattern = lp] :
            s \in {"alive", "dead"}, c \in BOOLEAN, h \in 0..(NumHosts - 1),
            lp \in {"None", "press_return"}}

\* what expect can return in a pass: anything while the process is alive,
\* EOF when it has died
ProtoExpect(m, session) ==
    IF session = "alive" THEN ExpectResults(m.events)
    ELSE IF "EOF" \in Range(m.events)
         THEN {Matched(IndexOf(m.events, "EOF"))}
         ELSE {RaisedEOF}

IsEOF(m, ex) ==
    \/ ex = RaisedEOF
    \/ ex.kind = "index" /\ m.events[ex.index + 1] = "EOF"

\* what _spawn_session of base.py lines 90-114 can do: the command is run,
\* or EOF or TIMEOUT is raised while it is sent
SpawnOutcomes == {"ok", "ConnectionError", "ConnectionTimeoutError"}

\* the actions that call Controller.disconnect on dialog p
Disconnecting(p, name) ==
    \/ name = "a_authentication_error"
    \/ name = "a_send_password" /\ p.password = "None"

\* a faulty a_authentication_error that does not disconnect
ProtoAction_KeepsSession(name, p, env, spawn) ==
    CASE name = "a_send_password" ->
            [p |-> [p EXCEPT !.passwords = @ + 1], res |-> Returned(TRUE, FALSE)]
      [] name = "a_authentication_error" ->
            [p |-> p,
             res |-> Raised(Exc("ConnectionAuthenticationError", "Authentication failed"))]
      [] OTHER -> [p |-> p, res |-> Returned(TRUE, FALSE)]

\* the actions on dialog p: what they do to it and what they return or
\* raise. a_send_password and a_authentication_error are those of
\* actions.py lines 45-60, send_pass, unable_to_connect, send_new_line and
\* save_pattern those of base.py lines 275-321 (disconnect of the protocol
\* sends Ctrl-C, ssh.py lines 139-140), send_yes and fallback_to_sshv1
\* those of ssh.py lines 142-151, _send_lf and _send_enable_password those
\* of IOS.py lines 121-131
ProtoAction(name, p, env, spawn) ==
    CASE name = "a_send_password" /\ p.password # "None" ->
            [p |-> [p EXCEPT !.passwords = @ + 1], res |-> Returned(TRUE, FALSE)]
      [] name \in {"a_send_password", "a_authentication_error"} ->
            LET d == ControllerDisconnect(p.ctrl, env)
                q == [p EXCEPT !.ctrl = d.ctrl, !.disconnect = d.call]
            IN  [p |-> q,
                 res |-> Raised(CASE d.exc # NoExc -> d.exc
                                  [] name = "a_send_password" ->
                                       Exc("ConnectionAuthenticationError",
                                           "Password not provided")
                                  [] OTHER -> Exc("ConnectionAuthenticationError",
                                                  "Authentication failed"))]
      [] name = "send_pass" ->
            IF p.password # "None"
            THEN [p |-> [p EXCEPT !.passwords = @ + 1], res |-> Returned(TRUE, FALSE)]
            ELSE [p |-> [p EXCEPT !.interrupts = @ + 1],
                  res |-> Raised(Exc("ConnectionAuthenticationError",
                                     "Password not provided"))]
      [] name = "_send_enable_password" ->
            \* sendline(None) when the URL has neither password
            IF p.password # "None"
            THEN [p |-> [p EXCEPT !.passwords = @ + 1], res |-> Returned(TRUE, FALSE)]
            ELSE [p |-> p, res |-> Raised(Exc("TypeError", "unsupported operand type(s)"))]
      [] name \in {"unable_to_connect", "a_unable_to_connect", "_reload_na"} ->
            [p |-> p, res |-> Returned(FALSE, FALSE)]
      [] name = "fallback_to_sshv1" ->
            IF spawn = "ok"
            THEN [p |-> [p EXCEPT !.spawned = Append(@, 1), !.ctrl.session = "alive"],
                  res |-> Returned(TRUE, FALSE)]
            ELSE [p |-> p,
                  res |-> Raised(Exc(spawn, IF spawn = "ConnectionError"
                                            THEN "Connection error" ELSE "Timeout"))]
      [] OTHER -> [p |-> p, res |-> Returned(TRUE, FALSE)]

\* what a pass that found a transition in the table did, for proto.last
PassOf(m, before, ex, res) ==
    LET e == EventOf(m, before, ex)
    IN  [pattern |-> IF e \in 0..(Len(m.events) - 1) THEN m.events[e + 1] ELSE "None",
         state |-> before.state,
         kind |-> PassKind(m, before, ex, res, ~UsesInitPattern(before)),
         action |-> PendingAction(m, before, ex).name]

\* _return_and_authenticate, XR.py lines 168-172 and XR64.py lines 160-164:
\* a new line is sent and Controller.connect called on the session there
\* is, from the last hop, without prompt detection; what connect returns
\* is not looked at
ReturnAndAuthenticate(p, outs) ==
    LET r == CtrlConnect(p.ctrl, NumHosts - 1, FALSE, FALSE, outs)
    IN  [p |-> [p EXCEPT !.ctrl = r.ctrl, !.hops = r.hops],
         res |-> IF r.result = "raised" THEN Raised(r.exc) ELSE Returned(TRUE, FALSE)]

\* the pass is the retry of the telnet connect FSMs: the TIMEOUT whose
\* action sends a new line, telnet.py lines 80 and 144
IsRetry(m, r, ex) ==
    /\ m.name \in TelnetConnectNames
    /\ HasTransition(m, r, ex)
    /\ m.events[EventOf(m, r, ex) + 1] = "TIMEOUT"
    /\ PendingAction(m, r, ex).name = "a_send"

\* one pass through the loop of FSM.run in the dialog: expect (or the
\* init_pattern), the lookup and the action with what it does to the
\* controller
ProtoPass ==
    /\ proto.pc = "run"
    /\ run.status = "running"
    /\ LoopCondition(sm, run)
    /\ \E ex \in IF UsesInitPattern(run) THEN {RaisedEOF}
                 ELSE ProtoExpect(sm, proto.ctrl.session) :
          LET a == PendingAction(sm, run, ex)
              seen == IF ~UsesInitPattern(run) /\ IsEOF(sm, ex)
                      THEN [proto EXCEPT !.ctrl.session = "dead"]
                      ELSE proto
          IN  \E env \in IF Disconnecting(seen, a.name) THEN DisconnectEnvs
                         ELSE {NoDisconnectEnv},
                 spawn \in IF a.name = "fallback_to_sshv1" THEN SpawnOutcomes ELSE {"ok"},
                 outs \in IF a.name = "_return_and_authenticate"
                          THEN [1..NumHosts -> HopOutcomes] ELSE {<<>>} :
                 LET act == IF a.name = "_return_and_authenticate"
                            THEN ReturnAndAuthenticate(seen, outs)
                            ELSE ProtoAction(a.name, seen, env, spawn)
                     pass == PassOf(sm, run, ex, act.res)
                 IN  /\ run' = [RunStep(sm, run, ex, act.res) EXCEPT !.call = NoCall]
                     /\ proto' = IF HasTransition(sm, run, ex)
                                 THEN [act.p EXCEPT
                                         !.last = pass,
                                         !.retries = IF IsRetry(sm, run, ex)
                                                     THEN @ + 1 ELSE @,
                                         !.path = IF sm.name = "RELOAD"
                                                  THEN Append(@, pass.pattern) ELSE @]
                                 ELSE act.p
    /\ UNCHANGED <<sm, log, conn_vars, orch, fac, trip>>

\* the else clause of the while loop in the dialog: run returns False
ProtoExhausted ==
    /\ proto.pc = "run"
    /\ run.status = "running"
    /\ ~LoopCondition(sm, run)
    /\ run' = RunStep(sm, run, RaisedEOF, Returned(TRUE, FALSE))
    /\ UNCHANGED <<sm, log, conn_vars, orch, fac, trip, proto>>

\* the dialogs run inside the try block of Controller.connect
InConnect(case) ==
    case \in {"TELNET-AUTH", "SSH-CONNECT", "SSH-AUTH"} \cup TelnetConnectNames

\* reload is called, XR.py lines 94-111 and XR64.py lines 112-133: the
\* table is built and the command sent. The table names the methods
\* _send_lf and _send_line (and _send_yes in XR64.py) of the driver, which
\* neither class nor generic.Connection defines: as the classes are
\* written the call raises AttributeError at XR.py line 99 (XR64.py line
\* 117); with a class that provides them (as IOS.py lines 121-124 provides
\* _send_lf) the FSM is run
ReloadCall ==
    /\ proto.pc = "call"
    /\ \/ proto' = [proto EXCEPT
                      !.pc = "idle", !.result = "raised",
                      !.exc = Exc("AttributeError",
                                  "'Connection' object has no attribute '_send_lf'")]
       \/ proto' = [proto EXCEPT !.pc = "run"]
    /\ UNCHANGED <<fsm_vars, conn_vars, orch, fac, trip>>

\* the FSM has ended and its caller goes on. The FSMs of the protocols run
\* inside the try block of Controller.connect, pexpect_ctrl.py lines
\* 121-142: ConnectionTimeoutError makes it disconnect before it is raised
\* again, every other exception is raised again as it is. SSH.authenticate
\* returns True whatever run returned (ssh.py lines 134-137); the others and
\* enable (IOS.py line 119) return what run returned. The locals of run
\* are gone
ProtoReturn ==
    /\ proto.pc = "run"
    /\ run.status # "running"
    /\ \E env \in IF InConnect(proto.case) /\ run.exc.type = "ConnectionTimeoutError"
                  THEN DisconnectEnvs ELSE {NoDisconnectEnv} :
          LET d == ControllerDisconnect(proto.ctrl, env)
          IN  proto' =
                 CASE run.status = "raised" /\ env # NoDisconnectEnv ->
                         [proto EXCEPT !.pc = "idle", !.ctrl = d.ctrl,
                                       !.disconnect = d.call, !.result = "raised",
                                       !.exc = IF d.exc # NoExc THEN d.exc ELSE run.exc]
                   [] run.status = "raised" ->
                         [proto EXCEPT !.pc = "idle", !.result = "raised", !.exc = run.exc]
                   [] proto.case = "SSH-AUTH" ->
                         [proto EXCEPT !.pc = "idle", !.result = "True"]
                   [] OTHER ->
                         [proto EXCEPT !.pc = "idle",
                                       !.result = IF run.status = "true" THEN "True"
                                                  ELSE "False"]
    /\ run' = IdleRun
    /\ UNCHANGED <<sm, log, conn_vars, orch, fac, trip>>

\* Controller.disconnect called on a controller on which no dialog is run
ProtoDisconnect ==
    /\ proto.pc = "idle"
    /\ proto.case = "None"
    /\ \E env \in DisconnectEnvs :
          LET d == ControllerDisconnect(proto.ctrl, env)
          IN  proto' = [proto EXCEPT !.ctrl = d.ctrl, !.disconnect = d.call,
                                     !.op = "disconnect",
                                     !.result = IF d.exc = NoExc THEN "None" ELSE "raised",
                                     !.exc = d.exc]
    /\ UNCHANGED <<fsm_vars, conn_vars, orch, fac, trip>>

\* a dialog that begins on a controller whose process is alive (the
\* protocol spawned it with ssh -2 or telnet; enable runs on the connected
\* controller), or a controller on which no dialog is run
ProtoInit ==
    /\ \/ \E c \in ProtoCases :
             /\ sm = c.fsm
             /\ run = NewRun(c.fsm)
             /\ proto = [NoProto EXCEPT
                           !.case = c.fsm.name, !.is_target = c.is_target,
                           !.password = c.password, !.op = c.fsm.name,
                           !.pc = IF c.fsm.name = "RELOAD" THEN "call" ELSE "run",
                           !.spawned = IF c.fsm.name \in {"SSH-CONNECT", "SSH-AUTH"}
                                       THEN <<2>> ELSE <<>>,
                           !.ctrl = [NewController EXCEPT
                                       !.session = "alive",
                                       !.is_target = c.is_target,
                                       !.connected = c.fsm.name \in {"IOS-ENABLE", "RELOAD"},
                                       !.detected_prompts =
                                           IF c.fsm.name = "RELOAD" THEN DetectedPrompts
                                           ELSE @]]
       \/ \E c \in Controllers :
             /\ sm = MakeFSM("None", <<>>, <<>>, "None", 0, 0)
             /\ run = NewRun(sm)
             /\ proto = [NoProto EXCEPT !.ctrl = c]
    /\ log = <<>>
    /\ ConnInit
    /\ orch = NewDriver
    /\ fac = NewFacade
    /\ trip = NoTrip

ProtoNext == ProtoPass \/ ProtoExhausted \/ ReloadCall \/ ProtoReturn \/ ProtoDisconnect

SpecProto == ProtoInit /\ [][ProtoNext]_vars

HopsInit ==
    /\ sm = MakeFSM("None", <<>>, <<>>, "None", 0, 0)
    /\ run = NewRun(sm)
    /\ log = <<>>
    /\ ConnInit
    /\ orch = NewDriver
    /\ fac = NewFacade
    /\ trip = NoTrip
    /\ proto = NoProto

HopsNext == GenericConnect \/ ReloadConnect \/ SendActs \/ GenericDisconnect

SpecHops == HopsInit /\ [][HopsNext]_vars

\* the Connection object as its constructor leaves it; the cache file,
\* which outlives the object, holds no record of its chains or the record
\* of an earlier discovery
FacadeInit ==
    /\ sm = MakeFSM("None", <<>>, <<>>, "None", 0, 0)
    /\ run = NewRun(sm)
    /\ log = <<>>
    /\ ConnInit
    /\ orch = NewDriver
    /\ \E k \in Alternatives, present \in BOOLEAN :
          fac = [NewFacade EXCEPT !.cache = [present |-> present,
                                            last_driver |-> IF present THEN k ELSE 0]]
    /\ trip = NoTrip
    /\ proto = NoProto

FacadeNext ==
    \/ FacadeConnectCall
    \/ DiscoveryTry
    \/ DiscoveryInitDriver
    \/ DiscoverySetCtrl
    \/ DiscoveryConnected
    \/ IsConnectedRead
    \/ ConnectTry
    \/ ReconnectCall
    \/ ReconnectLoop
    \/ ReconnectExcept
    \/ FacadeDisconnect

SpecFacade == FacadeInit /\ [][FacadeNext]_vars

\* a Connection that has just been discovered, and nothing in the cache
RecordInit ==
    /\ sm = MakeFSM("None", <<>>, <<>>, "None", 0, 0)
    /\ run = NewRun(sm)
    /\ log = <<>>
    /\ ConnInit
    /\ orch = NewDriver
    /\ fac = NewFacade
    /\ \E c \in Discovered : trip = [NoTrip EXCEPT !.pc = "discovered", !.written_by = c]
    /\ proto = NoProto

RecordNext == TripWrite \/ TripRead \/ TripReadBack

SpecRecord == RecordInit /\ [][RecordNext]_vars

\* ------------------------------------------------------------------------
\* Properties of the hop orchestrator (checked under SpecHops)
\* ------------------------------------------------------------------------

\* C14: in every reachable state, after any sequence of connect, send,
\* reload and disconnect, the detected-prompt table of the controller has
\* len(hosts) + 1 slots and slot 0 holds the fake prompt
C14_TableKeepsSlotsAndSentinel ==
    /\ Len(orch.ctrl.detected_prompts) = NumHosts + 1
    /\ orch.ctrl.detected_prompts[1] = "FaKePrOmPt"
    /\ DOMAIN orch.ctrl.detected_prompts = 1..(NumHosts + 1)

\* the reconnect of a reload went past the last slot of the table (a hop
\* number above len(hosts)) after it had written the slot of the target
C14_Witness ==
    /\ orch.last.op = "reconnect"
    /\ orch.last.exc.type = "IndexError"
    /\ orch.ctrl.detected_prompts[NumHosts + 1] = ""
    /\ \E i \in 1..Len(orch.last.hops) : orch.last.hops[i][1] > NumHosts

\* the last call was a call of Controller.connect that returned True
ConnectSucceeded ==
    /\ orch.last.op \in {"connect", "reconnect"}
    /\ orch.last.result = "True"

\* C15: after every successful connect of the controller, the one made
\* with detect_prompt=False by a reload included, every slot of the
\* detected-prompt table but slot 0 holds a prompt that is not empty
C15_SlotsHoldPrompts ==
    ConnectSucceeded =>
        \A i \in 2..(NumHosts + 1) : orch.ctrl.detected_prompts[i] \notin {"", "None"}

\* the connect of a reload has succeeded and left the empty string in the
\* slot of the target, where the first connect had put the detected prompt
C15_Witness ==
    /\ orch.last.op = "reconnect"
    /\ orch.last.result = "True"
    /\ ~orch.last.detect_prompt
    /\ orch.ctrl.detected_prompts[NumHosts + 1] = ""

\* C16: when the session was lost with hop k > 0 still reachable, the
\* connect that follows resumes at hop k: last_hop is k when connect of the
\* controller begins and no host up to the k-th is connected to again
C16_ResumesAtLostHop ==
    (/\ orch.last.op \in {"connect", "connect_skipped"}
     /\ orch.last.lost > 0
     /\ orch.last.exc.type # "TypeError") =>
        /\ orch.last.op = "connect"
        /\ orch.last.last_hop = orch.last.lost
        /\ \A i \in 1..Len(orch.last.hops) : orch.last.hops[i][2] > orch.last.lost

\* the session was lost at the hop before the target, and the connect that
\* followed began with last_hop = 0 at the first host of the chain
C16_Witness ==
    /\ orch.last.op = "connect"
    /\ orch.last.lost = NumHosts - 1
    /\ orch.last.lost > 0
    /\ orch.last.last_hop = 0
    /\ Len(orch.last.hops) > 0
    /\ orch.last.hops[1] = <<1, 1>>

\* the outcomes of a hop after which the attempts of Controller.connect can
\* run out (the while loop of pexpect_ctrl.py lines 113-153 ends without a
\* break): the host is not reachable, or the protocol did not connect,
\* did not authenticate or did not find the prompt
GivesUp == {"unreachable", "refused", "auth_false", "no_prompt"}

\* the connect of the driver recorded in orch.last is the one that meets
\* outs at its hops and runs out of attempts at the last hop it reached
RanOutOfAttempts(outs) ==
    LET r == CtrlConnect(NewController, 0, TRUE, TRUE, outs)
    IN  /\ orch.last.op = "connect"
        /\ orch.last.result = "raised"
        /\ orch.last.hops = r.hops
        /\ orch.last.exc = r.exc
        /\ Len(r.hops) > 0
        /\ outs[Len(r.hops)] \in GivesUp

\* C24: when a hop cannot be reached or connected within max_attempts
\* attempts, connect fails with ConnectionError and no other type of
\* exception, and the connection is left not connected
C24_UnreachableRaisesConnectionError ==
    \A outs \in [1..NumHosts -> HopOutcomes] :
        RanOutOfAttempts(outs) =>
            /\ orch.last.exc.type = "ConnectionError"
            /\ ~orch.connected
            /\ ~orch.ctrl.connected

\* the first hop was not reachable, no process was spawned, and connect
\* ended with the AttributeError of Controller.disconnect
C24_Witness ==
    /\ \E outs \in [1..NumHosts -> HopOutcomes] :
          RanOutOfAttempts(outs) /\ outs[1] = "unreachable"
    /\ orch.last.hops = <<<<1, 1>>>>
    /\ orch.ctrl.session = "None"
    /\ orch.last.exc.type = "AttributeError"
    /\ ~orch.connected

\* after a process was spawned the attempts run out with ConnectionError
\* and the controller disconnected
C24_ConnectionErrorOnceSpawned ==
    \A outs \in [1..NumHosts -> HopOutcomes] :
        (RanOutOfAttempts(outs) /\ orch.ctrl.session # "None") =>
            /\ orch.last.exc = Exc("ConnectionError", "")
            /\ ~orch.connected
            /\ ~orch.ctrl.connected
            /\ orch.ctrl.last_hop = 0

\* ------------------------------------------------------------------------
\* Properties of the Connection object (checked under SpecFacade)
\* ------------------------------------------------------------------------

\* the calls of connect of the driver made by the loop of connect itself
\* in the call of connect in progress or last ended
LoopCalls == SelectSeq(fac.tried, LAMBDA c : c.phase = "connect")

\* the calls cs of connect of the driver go through the alternatives in
\* cyclic order from alternative from on, at most once each, a call is
\* followed by another only if it raised a ConnectionError, connect
\* returns only after a call that succeeded, and the ConnectionError of the
\* last of NumAlternatives failed calls is raised
InCyclicOrder(cs, from) ==
    /\ Len(cs) <= NumAlternatives
    /\ \A j \in 1..Len(cs) : cs[j].alt = (from + j - 1) % NumAlternatives
    /\ \A j \in 1..(Len(cs) - 1) : cs[j].out \in ConnectionErrors
    /\ fac.cend = "returned" => Len(cs) > 0 /\ cs[Len(cs)].out = "True"
    /\ (Len(cs) = NumAlternatives /\ cs[Len(cs)].out \in ConnectionErrors) =>
          /\ fac.cend = "raised"
          /\ fac.cexc.type = cs[Len(cs)].out

\* C17 as stated: a call of connect calls connect of the driver at most
\* once per alternative, in cyclic order from the last_driver_index the
\* object has when connect has read the cache, stops at the first success
\* and raises the ConnectionError of the last of n failed attempts;
\* last_driver_index is always one of 0..n-1
C17_AtMostOncePerAlternative ==
    /\ fac.last_driver_index \in Alternatives
    /\ InCyclicOrder(fac.tried, fac.call_idx)

\* C17, amended: the loop of connect, which begins once the record of the
\* cache was read and the device discovered, calls connect of the driver at
\* most once per alternative, in cyclic order from the last_driver_index
\* these steps left, stops and returns at the first success and raises the
\* ConnectionError of the last of n failed attempts; last_driver_index is
\* always one of 0..n-1
C17_LoopTriesAlternativesInOrder ==
    /\ fac.last_driver_index \in Alternatives
    /\ fac.has_driver => fac.driver.alt = fac.last_driver_index
    /\ InCyclicOrder(LoopCalls, fac.start)
    /\ (Len(LoopCalls) > 0 /\ LoopCalls[Len(LoopCalls)].out = "True") =>
          fac.cend = "returned"

\* connect has failed at every alternative, beginning at the second and
\* going round to the first, and has raised the error of the last attempt
C17_Witness ==
    /\ fac.op = "connect"
    /\ fac.cend = "raised"
    /\ Len(LoopCalls) = NumAlternatives
    /\ fac.start = 1
    /\ LoopCalls[1].alt = 1
    /\ LoopCalls[NumAlternatives].alt = 0
    /\ LoopCalls[1].out = "ConnectionError"
    /\ fac.exc.type = "ConnectionAuthenticationError"

\* C18: when a connect succeeded through alternative k, the next call of
\* connect or reconnect on the object calls connect of the driver at
\* alternative k first
C18_LatchedAlternativeTriedFirst ==
    (/\ fac.op \in {"connect", "reconnect"}
     /\ fac.latched0 >= 0
     /\ fac.first >= 0) => fac.first = fac.latched0

\* the last connect succeeded through the second alternative, the record
\* of the cache names the first, and the call that followed began there
C18_Witness ==
    /\ fac.op \in {"connect", "reconnect"}
    /\ fac.latched0 = 1
    /\ fac.cache.present
    /\ fac.cache.last_driver = 0
    /\ fac.first = 0

\* without a record in the cache the call that follows a successful
\* connect begins at the alternative of that connect
C18_LatchedWithoutCache ==
    (/\ fac.op \in {"connect", "reconnect"}
     /\ ~fac.cache.present
     /\ fac.latched0 >= 0
     /\ fac.first >= 0) => fac.first = fac.latched0

\* a call of reconnect has ended
ReconnectEnded == fac.op = "reconnect" /\ fac.pc = "idle" /\ fac.end # "None"

\* reconnect returned after a connect that succeeded
ReconnectSucceeded ==
    /\ fac.end = "returned"
    /\ fac.cend = "returned"
    /\ Len(fac.tried) > 0
    /\ fac.tried[Len(fac.tried)].out = "True"

\* reconnect raised ConnectionTimeoutError when the time measured had
\* reached max_timeout
ReconnectTimedOut ==
    /\ fac.end = "raised"
    /\ fac.exc.type = "ConnectionTimeoutError"
    /\ fac.expired >= fac.max_timeout

\* C19 as stated: reconnect ends only with a connect that succeeded or,
\* the time measured having reached max_timeout, with
\* ConnectionTimeoutError
C19_EndsBySuccessOrTimeout ==
    ReconnectEnded => ReconnectSucceeded \/ ReconnectTimedOut

\* reconnect ended because connect raised an exception that is not a
\* ConnectionError: ConnectionError is raised for an AttributeError, any
\* other exception goes to the caller
ReconnectBrokeOff ==
    /\ fac.end = "raised"
    /\ fac.cend = "raised"
    /\ fac.cexc.type \notin ConnectionErrors
    /\ fac.exc.type = IF fac.cexc.type = "AttributeError" THEN "ConnectionError"
                      ELSE fac.cexc.type

\* after a connect that raised a ConnectionError reconnect goes on to the
\* next alternative, and when time is left it calls connect again
ReconnectStep ==
    /\ (fac.pc = "reconnect_except" /\ fac'.pc = "reconnect_loop") =>
          /\ fac.cexc.type \in ConnectionErrors
          /\ fac'.last_driver_index = (fac.last_driver_index + 1) % NumAlternatives
          /\ fac'.expired > fac.expired
    /\ (fac.pc = "reconnect_except" /\ fac.cexc.type \in ConnectionErrors) =>
          fac'.pc = "reconnect_loop"
    /\ (fac.pc = "reconnect_loop" /\ fac.expired < fac.max_timeout) =>
          fac'.pc \in {"discovery", "connect"}
    /\ (fac.pc = "reconnect_loop" /\ fac.expired >= fac.max_timeout) =>
          fac'.pc = "idle" /\ fac'.exc.type = "ConnectionTimeoutError"

\* C19, amended: reconnect(max_timeout) keeps calling connect, going on to
\* the next alternative after each connect that raised a ConnectionError,
\* until a connect succeeds, the time measured reaches max_timeout, or
\* connect raises an exception that is not a ConnectionError; when the
\* time is reached it raises ConnectionTimeoutError, and it never returns
\* without a connect that succeeded
C19_ReconnectUntilSuccessOrTimeout ==
    /\ [](ReconnectEnded => ReconnectSucceeded \/ ReconnectTimedOut \/ ReconnectBrokeOff)
    /\ [][ReconnectStep]_vars

\* reconnect has called connect twice, each call has raised a
\* ConnectionError and was followed by the next alternative, and the time
\* being over it raised ConnectionTimeoutError
C19_Witness ==
    /\ ReconnectEnded
    /\ ReconnectTimedOut
    /\ fac.attempt = 3
    /\ fac.max_timeout = MaxTimeout
    /\ fac.cexc.type \in ConnectionErrors

\* C20: when the last connect made by a reconnect that raises failed with
\* ConnectionAuthenticationError, reconnect raises
\* ConnectionAuthenticationError
C20_AuthenticationErrorReachesCaller ==
    (/\ ReconnectEnded
     /\ fac.end = "raised"
     /\ fac.cexc.type = "ConnectionAuthenticationError") =>
        fac.exc.type = "ConnectionAuthenticationError"

\* the authentication has failed in the connect made by reconnect, at the
\* last alternative, and reconnect has raised ConnectionTimeoutError
C20_Witness ==
    /\ ReconnectEnded
    /\ fac.cend = "raised"
    /\ fac.cexc.type = "ConnectionAuthenticationError"
    /\ Len(fac.tried) > 0
    /\ fac.tried[Len(fac.tried)].out = "ConnectionAuthenticationError"
    /\ fac.exc.type = "ConnectionTimeoutError"

\* no call of reconnect ends with ConnectionAuthenticationError
C20_NeverAuthenticationError ==
    ReconnectEnded => fac.exc.type # "ConnectionAuthenticationError"

\* C21: a call of connect on a Connection that is connected spawns no
\* process and authenticates no hop again, keeps the driver object and
\* leaves is_connected True
C21_SecondConnectIsNoOp ==
    (fac.op = "connect" /\ fac.was_connected) =>
        /\ ~fac.replaced
        /\ ~fac.respawned
        /\ fac.has_driver
        /\ fac.driver.connected

\* connect was called on a connected Connection, the record of the cache
\* was installed with a new driver, and the connect of that driver made a
\* new controller and connected it from the first hop
C21_Witness ==
    /\ fac.op = "connect"
    /\ fac.was_connected
    /\ fac.hit
    /\ fac.replaced
    /\ fac.respawned
    /\ fac.end = "returned"

\* without a record read from the cache, a connect on a connected and
\* discovered Connection whose driver returns True at once changes nothing
C21_NoOpWithoutRecord ==
    (/\ fac.op = "connect"
     /\ fac.was_connected
     /\ ~fac.hit
     /\ Len(fac.tried) > 0
     /\ fac.tried[1].phase = "connect"
     /\ fac.tried[1].out = "True") =>
        /\ ~fac.replaced
        /\ ~fac.respawned
        /\ fac.driver.connected

\* the call in progress or last ended has read a record from the cache and
\* not run discovery: the record is installed with a driver of its
\* platform over the chain it names, every call of connect of the driver
\* is one of the loop of connect, and connect returns with the driver
\* connected
RecordUsed ==
    fac.hit =>
        /\ fac.discovered
        /\ fac.has_driver
        /\ \A j \in 1..Len(fac.tried) : fac.tried[j].phase = "connect"
        /\ (fac.pc = "connect" /\ Len(fac.tried) = 0) =>
              /\ fac.last_driver_index = fac.cache.last_driver
              /\ fac.driver = [alt |-> fac.cache.last_driver, connected |-> FALSE,
                               name |-> "IOS", ctrl |-> "None"]
        /\ fac.cend = "returned" => fac.driver.connected

\* the record of the cache changes only at the end of a discovery, which
\* writes the chain in use
RecordWritten ==
    fac'.cache # fac.cache =>
        /\ fac.pc = "set_connected"
        /\ fac'.pc = "connect"
        /\ fac'.discovered
        /\ fac'.cache = [present |-> TRUE, last_driver |-> fac'.last_driver_index]

\* C22: with a record of its chains in the cache, connect installs the
\* record and connects without running discovery, and only a completed
\* discovery writes a record to the cache
C22_CachedRecordSkipsDiscovery == []RecordUsed /\ [][RecordWritten]_vars

\* the first connect of a new Connection has read the record, called
\* connect of the driver once and returned connected
C22_Witness ==
    /\ fac.calls = 1
    /\ fac.op = "connect"
    /\ fac.hit
    /\ fac.end = "returned"
    /\ Len(fac.tried) = 1
    /\ fac.driver.connected

\* ------------------------------------------------------------------------
\* Properties of the device description record (checked under SpecRecord)
\* ------------------------------------------------------------------------

\* C23: the record read back from a new Connection that installed the
\* record written by a discovered Connection is that record, and the two
\* Connections have the same driver name, hostname, family, platform,
\* os_type, os_version, console flag, prompt, detected prompts, UDI and
\* last driver index
C23_RecordRoundTrip ==
    trip.pc = "read_back" =>
        /\ trip.back = trip.cache
        /\ trip.read_by.driver.name = trip.written_by.driver.name
        /\ trip.read_by.hostname = trip.written_by.hostname
        /\ trip.read_by.family = trip.written_by.family
        /\ Platform(trip.read_by) = Platform(trip.written_by)
        /\ trip.read_by.os_type = trip.written_by.os_type
        /\ trip.read_by.os_version = trip.written_by.os_version
        /\ trip.read_by.is_console = trip.written_by.is_console
        /\ trip.read_by.prompt = trip.written_by.prompt
        /\ trip.read_by.driver.detected_prompts = trip.written_by.driver.detected_prompts
        /\ trip.read_by.driver.udi = trip.written_by.driver.udi
        /\ trip.read_by.last_driver_index = trip.written_by.last_driver_index

\* a record was read back whose platform comes from the PID of the
\* chassis, not from the attribute, and whose console flag is None
C23_Witness ==
    /\ trip.pc = "read_back"
    /\ trip.written_by.platform = "generic"
    /\ trip.back.device_info.platform = "ASR-9904"
    /\ trip.back.console = "None"
    /\ trip.back.last_driver = 1
    /\ trip.back.driver_name = "XR64"

\* ------------------------------------------------------------------------
\* The timeout and the state of FSM.run (checked under SpecFSM)
\* ------------------------------------------------------------------------

\* the passes before the k-th that executed a transition, and those among
\* them whose transition has a timeout other than 0
ExecutedBefore(k) == {i \in 1..(k - 1) : log[i].kind = "taken"}

TimedBefore(k) == {i \in ExecutedBefore(k) : log[i].entry.timeout # 0}

Latest(S) == CHOOSE i \in S : \A j \in S : j <= i

\* the timeout and the state the k-th pass must begin with
TimeoutFor(k) ==
    IF TimedBefore(k) = {} THEN sm.timeout ELSE log[Latest(TimedBefore(k))].entry.timeout

StateFor(k) ==
    IF ExecutedBefore(k) = {} THEN 0 ELSE log[Latest(ExecutedBefore(k))].entry.next_state

\* C30: the timeout run passes to the k-th expect is the timeout of the
\* last executed transition whose timeout is not 0, or the initial timeout
\* of the FSM when there is none: a transition with timeout 0 and a
\* swallowed event leave it unchanged; and the state is next_state after
\* every executed transition
C30_TimeoutOfLastTimedTransition ==
    /\ \A k \in 1..Len(log) :
          /\ log[k].timeout = TimeoutFor(k)
          /\ log[k].state = StateFor(k)
    /\ run.status = "running" =>
          /\ run.timeout = TimeoutFor(Len(log) + 1)
          /\ run.state = StateFor(Len(log) + 1)

\* a transition with timeout 10 was executed, then an event was swallowed
\* and a transition with timeout 0 executed, and the expect after them was
\* given 10, not the initial 60
C30_Witness ==
    /\ sm.name = "TIMEOUTS"
    /\ sm.timeout = 60
    /\ Len(log) = 4
    /\ log[1].kind = "taken" /\ log[1].entry.timeout = 10
    /\ log[2].kind = "swallowed" /\ log[2].timeout = 10
    /\ log[3].kind = "taken" /\ log[3].entry.timeout = 0 /\ log[3].state = 1
    /\ log[4].expected
    /\ log[4].timeout = 10
    /\ log[4].state = 1

\* ------------------------------------------------------------------------
\* Properties of the dialogs with the device (checked under SpecProto)
\* ------------------------------------------------------------------------

\* the dialog has ended with exception e: run has raised it, and it is what
\* the caller of the dialog gets
EndedWith(type, message) ==
    \/ /\ proto.pc = "run"
       /\ run.status = "raised"
       /\ run.exc = Exc(type, message)
    \/ /\ proto.pc = "idle"
       /\ proto.result = "raised"
       /\ proto.exc = Exc(type, message)

\* Controller.disconnect was called in the dialog and has closed the
\* session
ControllerDisconnected ==
    /\ proto.disconnect.called
    /\ proto.disconnect.closed
    /\ proto.ctrl.session = "closed"
    /\ ~proto.ctrl.connected

\* the last pass of the telnet authenticate FSM found, after the password
\* was sent (state 2), the username or the password prompt again or a
\* message of failed authentication
AuthenticationFailed ==
    /\ proto.case = "TELNET-AUTH"
    /\ proto.last.state = 2
    /\ proto.last.pattern \in {"username", "password", "AUTH_FAILED"}

\* C25: in the authenticate FSM a username or password prompt that comes
\* back after the password was sent, or a message of failed authentication,
\* raises ConnectionAuthenticationError out of connect, on a jump host as
\* on the target, and the controller is disconnected before the error
\* reaches the caller
C25_AuthenticationFailureRaises ==
    AuthenticationFailed =>
        /\ EndedWith("ConnectionAuthenticationError", "Authentication failed")
        /\ ControllerDisconnected

\* on a jump host the password was sent, the password prompt came back and
\* connect has raised with the session closed
C25_Witness ==
    /\ AuthenticationFailed
    /\ ~proto.is_target
    /\ proto.last.pattern = "password"
    /\ proto.passwords = 1
    /\ proto.pc = "idle"
    /\ proto.exc.type = "ConnectionAuthenticationError"
    /\ proto.ctrl.session = "closed"

\* the last pass found the password prompt on a hop without a password, in
\* a state in which the password is sent
PasswordMissing ==
    /\ proto.case \in {"TELNET-AUTH", "SSH-AUTH"}
    /\ proto.password = "None"
    /\ proto.last.action \in {"a_send_password", "send_pass"}

\* C26: when a hop has no password and the device asks for one during
\* authentication, connect raises ConnectionAuthenticationError("Password
\* not provided"), nothing is sent as a password and the controller is
\* disconnected first
C26_MissingPasswordRaises ==
    PasswordMissing =>
        /\ EndedWith("ConnectionAuthenticationError", "Password not provided")
        /\ proto.passwords = 0
        /\ ControllerDisconnected

\* ssh asked for a password the hop does not have: connect has raised,
\* Ctrl-C was sent and the session of the controller is still there
C26_Witness ==
    /\ PasswordMissing
    /\ proto.case = "SSH-AUTH"
    /\ proto.pc = "idle"
    /\ proto.exc = Exc("ConnectionAuthenticationError", "Password not provided")
    /\ proto.passwords = 0
    /\ proto.interrupts = 1
    /\ ~proto.disconnect.called
    /\ proto.ctrl.session = "alive"

\* with telnet the controller is disconnected first, and with both
\* protocols the error is raised and nothing is sent
C26_RaisedAndNothingSent ==
    PasswordMissing =>
        /\ EndedWith("ConnectionAuthenticationError", "Password not provided")
        /\ proto.passwords = 0
        /\ proto.case = "TELNET-AUTH" => ControllerDisconnected

\* the messages of ssh that make connect fall back to version 1
FallbackMessages == {"MODULUS_TOO_SMALL", "PROTOCOL_DIFFER"}

\* the respawns made so far: every spawn after the first one
Respawns == Len(proto.spawned) - 1

\* C27: in the SSH connect FSM each of the messages "modulus too small" and
\* "Protocol major versions differ" makes one respawn with version 1, a
\* second occurrence of either in the same connect is a fatal
\* ConnectionError: no run respawns more than once
C27_RespawnsAtMostOnce ==
    proto.case = "SSH-CONNECT" =>
        /\ Respawns <= 1
        /\ \A i \in 2..Len(proto.spawned) : proto.spawned[i] = 1
        /\ (proto.last.pattern \in FallbackMessages /\ proto.last.kind = "taken") =>
                Respawns = 1
        /\ (proto.last.pattern \in FallbackMessages /\ proto.last.kind = "raise") =>
                /\ Respawns = 1
                /\ proto.pc = "run" => run.exc.type = "ConnectionError"
                /\ proto.pc = "idle" => proto.exc.type = "ConnectionError"

\* "modulus too small" came twice and ssh was spawned with version 1 twice
C27_Witness ==
    /\ proto.case = "SSH-CONNECT"
    /\ proto.spawned = <<2, 1, 1>>
    /\ proto.last.pattern = "MODULUS_TOO_SMALL"
    /\ proto.last.state = 0
    /\ proto.last.kind = "taken"

\* after "Protocol major versions differ" no further respawn is made, and
\* a second one is fatal
C27_ProtocolDifferOnce ==
    (/\ proto.case = "SSH-CONNECT"
     /\ proto.last.pattern = "PROTOCOL_DIFFER"
     /\ proto.last.state = 4) =>
        EndedWith("ConnectionError", "Protocol version differs")

\* C28: on an IOS device, when the enable dialog shows the password prompt
\* again after the enable password was sent, enable raises
\* ConnectionAuthenticationError("Incorrect enable password"); the enable
\* password is sent at most once in a call of enable and the session stays
\* open
C28_IncorrectEnablePassword ==
    proto.case = "IOS-ENABLE" =>
        /\ proto.passwords <= 1
        /\ ~proto.disconnect.called
        /\ (proto.last.pattern = "password_prompt" /\ proto.last.state = 2) =>
              /\ EndedWith("ConnectionAuthenticationError", "Incorrect enable password")
              /\ proto.passwords = 1
              /\ proto.ctrl.session = "alive"
              /\ proto.ctrl.connected

\* the enable password was sent, the prompt for it came back and enable has
\* raised
C28_Witness ==
    /\ proto.case = "IOS-ENABLE"
    /\ proto.pc = "idle"
    /\ proto.last.pattern = "password_prompt"
    /\ proto.last.state = 2
    /\ proto.passwords = 1
    /\ proto.exc = Exc("ConnectionAuthenticationError", "Incorrect enable password")
    /\ proto.ctrl.session = "alive"

\* what a call of Controller.disconnect that found a session did: exit
\* was sent once for every expect up to the one that saw EOF, and 10 times
\* when none did; then the process was closed and the flags were reset
DisconnectedWithSession ==
    LET d == proto.disconnect
    IN  /\ d.exits <= MaxExitHops
        /\ d.from = "alive" =>
              d.exits = IF d.env.eof_at \in 1..MaxExitHops THEN d.env.eof_at
                        ELSE MaxExitHops
        /\ d.from # "alive" => d.exits = 0
        /\ d.eof <=> (d.from = "alive" /\ d.env.eof_at \in 1..MaxExitHops)
        /\ d.closed
        /\ proto.ctrl.session = "closed"
        /\ ~proto.ctrl.connected
        /\ proto.ctrl.last_hop = 0
        /\ proto.ctrl.last_pattern = "None"

\* C29: disconnect of the hop orchestrator sends exit at most 10 times,
\* stops as soon as EOF is seen and then closes the process; it ends
\* whatever the session is (alive, dead already, never spawned), and after
\* it connected is False, last_hop is 0 and last_pattern is None
C29_DisconnectEnds ==
    proto.disconnect.called =>
        /\ DisconnectedWithSession
        /\ proto.op = "disconnect" => proto.exc = NoExc

\* disconnect on a controller that never spawned a process: it is left by
\* AttributeError, nothing was closed
C29_Witness ==
    /\ proto.op = "disconnect"
    /\ proto.disconnect.called
    /\ proto.disconnect.from = "None"
    /\ proto.disconnect.exits = 0
    /\ ~proto.disconnect.closed
    /\ proto.exc.type = "AttributeError"
    /\ proto.ctrl.session = "None"

\* with a process, alive or dead, disconnect does what C29 says
C29_EndsWithSession ==
    (proto.disconnect.called /\ proto.disconnect.from # "None") =>
        /\ DisconnectedWithSession
        /\ proto.op = "disconnect" => proto.exc = NoExc

\* EOF never came: exit was sent 10 times and the process was closed
C29_TenExits ==
    /\ proto.op = "disconnect"
    /\ proto.disconnect.from = "alive"
    /\ proto.disconnect.exits = MaxExitHops
    /\ ~proto.disconnect.eof
    /\ proto.ctrl.session = "closed"

\* ------------------------------------------------------------------------
\* The prompt of an earlier hop during the wait after a command (checked
\* under Spec)
\* ------------------------------------------------------------------------

\* the hop whose detected prompt is the string prompt:
\* detected_prompts.index(prompt), actions.py line 104
HopOfPrompt(prompt) == IndexOf(DetectedPrompts, prompt)

\* the FSM of thread t has ended in the pass that matched the prompt of an
\* earlier hop
EndedOnEarlierPrompt(t) ==
    /\ th[t].pc \in {"handler", "propagate"}
    /\ th[t].last_event \in Range(CompiledEarlierPrompts)

\* C31: when the prompt of an earlier hop k is matched during the wait after
\* a command, the FSM sets last_hop to k, marks the controller not connected
\* and returns failure (which _execute_command turns into ConnectionError
\* "Unexpected session disconnect")
C31_EarlierPromptSetsLastHop ==
    \A t \in Threads :
        EndedOnEarlierPrompt(t) =>
            /\ ctrl.last_hop = HopOfPrompt(th[t].last_event)
            /\ ~ctrl.connected
            /\ th[t].orig = Exc("ConnectionError", "Unexpected session disconnect")

\* the prompt of jump host 1 was matched by the FSM of a send: the action
\* raised AttributeError, last_hop is still 0 and the controller is still
\* marked connected
C31_Witness ==
    \E t \in Threads :
        /\ EndedOnEarlierPrompt(t)
        /\ th[t].last_event = EarlierPrompts[2]
        /\ th[t].orig.type = "AttributeError"
        /\ th[t].exc.type = "ConnectionError"
        /\ ctrl.last_hop = 0
        /\ ctrl.connected

\* the action never completes: every run that matched the prompt of an
\* earlier hop ended with the AttributeError of the action, in the state the
\* event was matched in
C31_EarlierPromptRaises ==
    \A t \in Threads :
        EndedOnEarlierPrompt(t) =>
            /\ th[t].orig.type = "AttributeError"
            /\ th[t].last_state \in {0, 1}

\* ------------------------------------------------------------------------
\* is_connected after a send that returned (checked under Spec)
\* ------------------------------------------------------------------------

\* the send of thread t has ended normally, and no other thread has used
\* the connection meanwhile
SentNormally(t) ==
    /\ th[t].op = "send"
    /\ th[t].pc \in {"executed", "returned"}
    /\ Undisturbed(t)

\* C39: after every send that returns normally is_connected is True, also
\* when the connection-closed message was matched and the target prompt
\* after it
C39_ConnectedAfterSend ==
    \A t \in Threads : SentNormally(t) => IsConnected

\* the first send of a connection has returned after the target prompt, no
\* disconnect was made and the driver is connected, but the controller is
\* marked not connected by a_connection_closed: is_connected is False
C39_Witness ==
    \E t \in Threads :
        /\ SentNormally(t)
        /\ th[t].nsend = 1
        /\ th[t].pre.is_connected
        /\ th[t].last_event = TargetPrompt
        /\ th[t].last_state = -1
        /\ disconnects = 0
        /\ connected
        /\ ctrl.session = "alive"
        /\ ~ctrl.connected
        /\ ~IsConnected

\* a send that returns normally after the press-return pattern leaves
\* is_connected True: a_stays_connected sets the flag of the controller
C39_ConnectedAfterPressReturn ==
    \A t \in Threads :
        (SentNormally(t) /\ th[t].pc = "executed" /\ th[t].last_event = "press_return") =>
            IsConnected

\* ------------------------------------------------------------------------
\* The timeout of the wait for the prompt and the pager (checked under Spec)
\* ------------------------------------------------------------------------

\* the timeout the pager transition of wait_for_prompt carries, generic.py
\* line 443
PagerTimeout == 10

\* the FSM of wait_for_prompt of thread t is about to call expect in state 0
ExpectsInState0(t) ==
    /\ th[t].pc = "wait"
    /\ th[t].wait_for_string = "None"
    /\ th[t].wait.state = 0

\* the pager prompts answered so far by the FSM of thread t: the pager
\* transition is the only one that leaves the FSM in state 0
PagersAnswered(t) == th[t].wait.transition_counter

\* C40 as stated: every expect the FSM of wait_for_prompt makes in state 0
\* uses the timeout the caller gave to send, also after pager prompts
C40_ExpectUsesCallersTimeout ==
    \A t \in Threads : ExpectsInState0(t) => th[t].wait.timeout = th[t].timeout

\* the target prompt is matched after no more than DefaultMaxTransitions - 1
\* pager prompts were answered: send is about to return normally
PromptAfterPagersReturns(t) ==
    (/\ ExpectsInState0(t)
     /\ PagersAnswered(t) < DefaultMaxTransitions
     /\ th'[t].pc # "wait"
     /\ th'[t].last_event = TargetPrompt) =>
        /\ th'[t].pc = "executed"
        /\ th'[t].last_state = -1

\* what the code does instead: the expects of the FSM of wait_for_prompt in
\* state 0 use the caller's timeout until a pager prompt is answered and 10
\* seconds after that; up to 19 pager prompts followed by the target prompt
\* end in a normal return
C40_TimeoutUntilPager ==
    /\ [](\A t \in Threads :
            ExpectsInState0(t) =>
                th[t].wait.timeout = IF PagersAnswered(t) = 0 THEN th[t].timeout
                                     ELSE PagerTimeout)
    /\ [][\A t \in Threads : PromptAfterPagersReturns(t)]_vars

\* the FSM of a send with the timeout 60 has answered 19 pager prompts and
\* expects in state 0 with the timeout 10
C40_Witness ==
    \E t \in Threads :
        /\ ExpectsInState0(t)
        /\ PagersAnswered(t) = DefaultMaxTransitions - 1
        /\ th[t].timeout = 60
        /\ th[t].wait.timeout = PagerTimeout

\* ------------------------------------------------------------------------
\* The success of the telnet authentication (checked under SpecProto)
\* ------------------------------------------------------------------------

\* Telnet.authenticate has returned True
TelnetAuthSucceeded ==
    /\ proto.case = "TELNET-AUTH"
    /\ proto.pc = "idle"
    /\ proto.result = "True"

\* C36: the telnet authenticate FSM reports success only after the expected
\* prompt or the rommon prompt was matched, never on a TIMEOUT after the
\* password was sent
C36_SuccessOnlyAfterPrompt ==
    TelnetAuthSucceeded => proto.last.pattern \in {"prompt", "rommon"}

\* the password was sent, the expect in state 2 timed out and
\* Telnet.authenticate returned True
C36_Witness ==
    /\ TelnetAuthSucceeded
    /\ proto.passwords = 1
    /\ proto.last.pattern = "TIMEOUT"
    /\ proto.last.state = 2
    /\ proto.ctrl.session = "alive"

\* the three ends in success the table has: the prompt, the rommon prompt
\* in state 0, and the TIMEOUT in state 2
C36_SuccessAfterPromptOrTimeout ==
    TelnetAuthSucceeded =>
        \/ proto.last.pattern = "prompt"
        \/ proto.last.pattern = "rommon" /\ proto.last.state = 0
        \/ proto.last.pattern = "TIMEOUT" /\ proto.last.state = 2

\* ------------------------------------------------------------------------
\* The telnet connect FSMs (checked under SpecProto)
\* ------------------------------------------------------------------------

\* a telnet connect FSM is running
ConnectingTelnet == proto.case \in TelnetConnectNames /\ proto.pc = "run"

\* this step is a pass of a telnet connect FSM in which the pattern was
\* matched (or TIMEOUT returned) by expect; the process has not ended
TelnetConnectPass(pattern) ==
    /\ ConnectingTelnet
    /\ run.status = "running"
    /\ ~UsesInitPattern(run)
    /\ proto'.ctrl.session = "alive"
    /\ run'.transition_counter = run.transition_counter + 1
    /\ run'.event = IndexOf(sm.events, pattern)

C34_StandbyAlwaysFails ==
    [][TelnetConnectPass("standby") =>
          /\ run'.status = "raised"
          /\ run'.exc = Exc("ConnectionError", "Standby console")]_vars

\* the standby-console message was matched in state 1, after the escape
\* character banner: the FSM goes on
C34_Witness ==
    /\ ConnectingTelnet
    /\ proto.case = "TELNET-CONNECT"
    /\ run.event = IndexOf(sm.events, "standby")
    /\ run.state = 1
    /\ run.status = "running"
    /\ proto.last.pattern = "ESCAPE_CHAR"

\* in the states 0 and 5 the message ends the FSM with the error, in every
\* other state it is passed over and the state kept
C34_StandbyFailsInStates0And5 ==
    [][TelnetConnectPass("standby") =>
          IF run.state \in {0, 5}
          THEN /\ run'.status = "raised"
               /\ run'.exc = Exc("ConnectionError", "Standby console")
          ELSE /\ run'.status = "running"
               /\ run'.state = run.state]_vars

\* ------------------------------------------------------------------------
\* The hosts and the hop numbers of Controller.connect (checked under
\* SpecHops)
\* ------------------------------------------------------------------------

\* the last call was a call of Controller.connect that entered its loop
ConnectCalled ==
    /\ orch.last.op \in {"connect", "reconnect"}
    /\ orch.last.exc.type # "TypeError"

\* C37: a call of Controller.connect that starts at hop k connects exactly
\* the hosts k..n-1 (the (k+1)-th to the n-th host) and numbers them
\* k+1..n: the hop number of every host it goes through is the position of
\* the host in the chain, no hop number is above n, all the hosts from the
\* (k+1)-th on are gone through when it succeeds, and the first connect
\* leaves is_target True exactly when it reached the last host
C37_ConnectsHostsFromStartHop ==
    ConnectCalled =>
        /\ \A j \in 1..Len(orch.last.hops) :
              /\ orch.last.hops[j] = <<orch.last.start_hop + j, orch.last.start_hop + j>>
              /\ orch.last.hops[j][1] <= NumHosts
        /\ orch.last.exc.type # "IndexError"
        /\ orch.last.result = "True" =>
              Len(orch.last.hops) = NumHosts - orch.last.start_hop
        /\ orch.last.op = "connect" =>
              (orch.ctrl.is_target <=>
                  \E j \in 1..Len(orch.last.hops) : orch.last.hops[j][2] = NumHosts)

\* the connect of a reload, called with start_hop = len(hosts) - 1 on a
\* controller whose last_hop is 0, began at the first host of the chain
\* with the hop number of the target and raised IndexError at the second
C37_Witness ==
    /\ orch.last.op = "reconnect"
    /\ orch.last.last_hop = 0
    /\ orch.last.start_hop = NumHosts - 1
    /\ orch.last.start_hop > 0
    /\ orch.last.hops[1] = <<NumHosts, 1>>
    /\ Len(orch.last.hops) = 2
    /\ orch.last.hops[2][1] = NumHosts + 1
    /\ orch.last.exc.type = "IndexError"

\* the hosts gone through are those after the last_hop of the controller,
\* numbered from start_hop + 1 on; the two agree when a connect begins at
\* hop 0 of a new controller, as connect of the driver calls it
C37_HostsFromLastHop ==
    ConnectCalled =>
        /\ \A j \in 1..Len(orch.last.hops) :
              orch.last.hops[j] = <<orch.last.start_hop + j, orch.last.last_hop + j>>
        /\ orch.last.op = "connect" =>
              /\ orch.last.start_hop = orch.last.last_hop
              /\ orch.last.exc.type # "IndexError"
              /\ \A j \in 1..Len(orch.last.hops) : orch.last.hops[j][1] <= NumHosts

\* ------------------------------------------------------------------------
\* The reload of XR and XR64 (checked under SpecProto)
\* ------------------------------------------------------------------------

\* the FSM of reload has matched SYSTEM CONFIGURATION COMPLETED in state 7
\* and called _return_and_authenticate
ReloadCompleted ==
    /\ proto.case = "RELOAD"
    /\ Len(proto.path) > 0
    /\ proto.path[Len(proto.path)] = "CONFIGURATION_COMPLETED"

\* the events of the last n transitions of the FSM of reload
LastOfPath(n) ==
    IF Len(proto.path) < n THEN <<>>
    ELSE SubSeq(proto.path, Len(proto.path) - n + 1, Len(proto.path))

\* C35: the FSM of reload comes to SYSTEM CONFIGURATION COMPLETED only
\* after the console-available banner, Press RETURN and SYSTEM
\* CONFIGURATION IN PROCESS, in that order; on that event it
\* re-authenticates the last hop only, under its own number, on the session
\* there is
C35_CompletedAfterBannersInOrder ==
    ReloadCompleted =>
        /\ LastOfPath(4) = <<"CONSOLE", "press_return", "CONFIGURATION_IN_PROCESS",
                             "CONFIGURATION_COMPLETED">>
        /\ proto.hops = <<<<NumHosts, NumHosts>>>>
        /\ proto.spawned = <<>>

\* the FSM of reload of XR came to state 7 by the TIMEOUT of state 6,
\* without SYSTEM CONFIGURATION IN PROCESS, and on SYSTEM CONFIGURATION
\* COMPLETED the connect went through the first host of the chain as hop n
\* and raised IndexError at the next
C35_Witness ==
    /\ ReloadCompleted
    /\ proto.path = <<"RELOAD", "DONE", "PROCEED", "CONSOLE", "press_return", "TIMEOUT",
                      "CONFIGURATION_COMPLETED">>
    /\ proto.pc = "idle"
    /\ proto.result = "raised"
    /\ proto.exc.type = "IndexError"
    /\ proto.hops[1] = <<NumHosts, 1>>

\* what the tables and the controller do: state 7 is reached after the
\* banner and Press RETURN by SYSTEM CONFIGURATION IN PROCESS or by a
\* TIMEOUT; no session is spawned; on a chain with a jump host the connect
\* begins at the first host and raises, so that the FSM never ends in
\* success through SYSTEM CONFIGURATION COMPLETED
C35_CompletedAfterBannerAndReturn ==
    ReloadCompleted =>
        /\ LastOfPath(4) \in
              {<<"CONSOLE", "press_return", e, "CONFIGURATION_COMPLETED">> :
                  e \in {"CONFIGURATION_IN_PROCESS", "TIMEOUT"}}
        /\ proto.spawned = <<>>
        /\ Len(proto.hops) > 0
        /\ proto.hops[1] = <<NumHosts, 1>>
        /\ \/ proto.pc = "run" /\ run.status = "raised"
           \/ proto.pc = "idle" /\ proto.result = "raised"

\* the call of reload that raised AttributeError before its FSM was made,
\* as it does with the driver classes as they are written
ReloadRaisedAttributeError ==
    /\ proto.case = "RELOAD"
    /\ proto.pc = "idle"
    /\ proto.path = <<>>
    /\ proto.exc.type = "AttributeError"

\* ------------------------------------------------------------------------
\* The hand-over of the session in discovery (checked under SpecFacade)
\* ------------------------------------------------------------------------

\* discovery has made the driver of the detected platform and has not yet
\* finished handing the controller over to it
HandingOver == fac.pc \in HandOver

\* C32: when discovery replaces the generic driver by the driver of the
\* platform, no state of the hand-over shows the active driver without a
\* controller or with connected = False, and no reading of is_connected
\* made during the hand-over returns False
C32_HandOverIsAtomic ==
    /\ HandingOver => fac.driver.ctrl # "None" /\ fac.driver.connected
    /\ fac.seen.at \in HandOver => fac.seen.value

\* is_connected, read by another thread after _init_driver installed the
\* new driver and before the controller was given to it, returned False
C32_Witness ==
    /\ fac.pc = "set_ctrl"
    /\ fac.driver.name = "IOS"
    /\ fac.driver.ctrl = "None"
    /\ ~fac.driver.connected
    /\ fac.seen = [at |-> "set_ctrl", value |-> FALSE]

\* what holds of the hand-over: it makes no call of connect of the driver,
\* and when it is over the driver of the platform has the controller of
\* the generic driver and is connected
C32_HandOverEndsConnected ==
    [][/\ fac.pc \in HandOver \cup {"init_driver"} => fac'.tried = fac.tried
       /\ (fac.pc = "set_connected" /\ fac'.pc = "connect") =>
             /\ fac'.driver.name = "IOS"
             /\ fac'.driver.ctrl = "Controller"
             /\ fac'.driver.connected
             /\ DriverIsConnected(fac'.driver)]_vars

\* ------------------------------------------------------------------------
\* The driver after its connect raised (checked under SpecHops)
\* ------------------------------------------------------------------------

\* connect of the driver raised an exception of those on which the loops
\* of discovery and connect go on to _shift_driver
ConnectRaised ==
    /\ orch.last.op = "connect"
    /\ orch.last.result = "raised"
    /\ orch.last.exc.type \in ConnectionErrors

\* C38: whenever connect of the driver raises a connection error (device
\* in rommon, enable failure, failure while preparing the terminal session
\* or hop failure), the driver is left with connected = False and the
\* session spawned by its controller is not left open
C38_RaisedConnectLeavesDisconnected ==
    ConnectRaised => ~orch.connected /\ orch.ctrl.session # "alive"

\* connect of the driver went through every hop, found the target in
\* rommon and raised, and the driver is connected with its session open
C38_Witness ==
    /\ ConnectRaised
    /\ orch.last.after = "rommon"
    /\ orch.last.exc = Exc("ConnectionError", "Device in rommon")
    /\ Len(orch.last.hops) = NumHosts
    /\ orch.connected
    /\ orch.ctrl.connected
    /\ orch.ctrl.session = "alive"

\* what the code does: the driver is left disconnected with its session
\* closed when send of prepare_terminal_session disconnected it, when the
\* controller timed out at a hop or when it ran out of attempts; otherwise
\* a session that was spawned is still open, and the driver is still
\* connected when the exception came after Controller.connect
C38_DisconnectedOnlyByControllerOrSend ==
    ConnectRaised =>
        /\ orch.connected = (orch.last.after \in {"rommon", "enable_error"})
        /\ orch.last.after = "session_lost" => orch.ctrl.session = "closed"
        /\ orch.last.exc.type = "ConnectionTimeoutError" => orch.ctrl.session = "closed"
        /\ orch.last.exc = Exc("ConnectionAuthenticationError", "Authentication failed") =>
              orch.ctrl.session = "alive"

\* the FSM engine alone: an FSM is constructed from one of the cases with
\* max_transitions from 1 to MaxN, and run; the connection stays idle
FsmInit ==
    /\ \E c \in FsmCases, n \in 1..MaxN :
          sm = MakeFSM(c.name, c.events, c.transitions, c.init_pattern, c.timeout, n)
    /\ run = NewRun(sm)
    /\ log = <<>>
    /\ ConnInit
    /\ orch = NewDriver
    /\ fac = NewFacade
    /\ trip = NoTrip
    /\ proto = NoProto

SpecFSM == FsmInit /\ [][FsmNext]_vars

\* send from the threads on one connected driver
Init ==
    /\ sm = MakeFSM("None", <<>>, <<>>, "None", 0, 0)
    /\ run = NewRun(sm)
    /\ log = <<>>
    /\ ConnInit
    /\ orch = NewDriver
    /\ fac = NewFacade
    /\ trip = NoTrip
    /\ proto = NoProto

Next ==
    \/ \E t \in Threads : SendCall(t)
    \/ \E t \in Threads : Acquire(t)
    \/ \E t \in Threads : SendCommand(t)
    \/ \E t \in Threads : WaitPass(t)
    \/ \E t \in Threads : WaitClosed(t)
    \/ \E t \in Threads : WaitExhausted(t)
    \/ \E t \in Threads : SendReturn(t)
    \/ \E t \in Threads : SendDisconnect(t)
    \/ \E t \in Threads : SendPropagate(t)
    \/ \E t \in Threads : Disconnect(t)

Spec == Init /\ [][Next]_vars

\* the steps of a call made by thread t: a thread that can take a step
\* takes it in the end
Proceed(t) ==
    \/ Acquire(t)
    \/ SendCommand(t)
    \/ WaitPass(t)
    \/ WaitClosed(t)
    \/ WaitExhausted(t)
    \/ SendReturn(t)
    \/ SendDisconnect(t)
    \/ SendPropagate(t)

LiveInit == Init

SpecLive == LiveInit /\ [][Next]_vars /\ \A t \in Threads : WF_vars(Proceed(t))

\* the threads call send, disconnect, enable and run_fsm
CallsInit == Init

CallsNext ==
    \/ \E t \in Threads : SendCall(t)
    \/ \E t \in Threads : Acquire(t)
    \/ \E t \in Threads : SendCommand(t)
    \/ \E t \in Threads : WaitPass(t)
    \/ \E t \in Threads : WaitClosed(t)
    \/ \E t \in Threads : WaitExhausted(t)
    \/ \E t \in Threads : SendReturn(t)
    \/ \E t \in Threads : SendDisconnect(t)
    \/ \E t \in Threads : SendPropagate(t)
    \/ \E t \in Threads : Disconnect(t)
    \/ \E t \in Threads : EnableCall(t)
    \/ \E t \in Threads : EnablePass(t)
    \/ \E t \in Threads : EnableClosed(t)
    \/ \E t \in Threads : EnableExhausted(t)
    \/ \E t \in Threads : RunFsm(t)

SpecCalls == CallsInit /\ [][CallsNext]_vars

====
